---- MODULE Spec2Model ----
(***************************************************************************)
(* A model of src/dialects/abstract/data-types.ts: the data-type           *)
(* descriptors of the abstract dialect (construction, modifier getters,    *)
(* toSql, validate, stringify) and the per-class dialect metadata tables.  *)
(***************************************************************************)
EXTENDS Integers, Sequences, FiniteSets, TLC

VARIABLES
  objs,      \* heap of numeric descriptors, in order of construction
  made,      \* history: how each descriptor of objs was obtained, and what it was then
  ownTypes,  \* class -> id of the table held by its own static `types` property (0: none)
  protoTypes,\* class -> id of the table held by its prototype's own `types` property (0: none)
  tables,    \* heap of metadata tables: id -> [dialect -> metadata]
  calls,     \* calls of kSetDialectNames in flight or finished
  regLog,    \* history: the registrations whose write has happened, in order
  arrays,    \* heap of JS arrays: id -> sequence of values
  bags,      \* heap of the option objects the caller holds: id -> properties
  enums,     \* ENUM descriptors constructed so far
  enumLog,   \* history: every ENUM construction attempted and its outcome
  val,       \* the JS value handed to validate / stringify
  out        \* the outcome of the last validate / stringify call

vars == <<objs, made, ownTypes, protoTypes, tables, calls, regLog,
          arrays, bags, enums, enumLog, val, out>>

numVars == <<objs, made>>
dialectVars == <<ownTypes, protoTypes, tables, calls, regLog>>
enumVars == <<arrays, bags, enums, enumLog>>
valueVars == <<val, out>>

(***************************************************************************)
(* Bounds of the model.                                                    *)
(***************************************************************************)
MaxObjs == 3
MaxCalls == 3
MaxRaceCalls == 2
MaxEnumCalls == 1
MaxListLen == 2
MaxStrLen == 3
MaxInstants == 2
MaxBufLen == 2
MaxBags == 1
MaxArrayLen == 3

(***************************************************************************)
(* JavaScript values.  A string is its sequence of characters.  A finite   *)
(* number is sign, significant digits ds (no leading or trailing zero) and *)
(* decimal exponent n, its value being 0.ds * 10^n; zero has no digits.    *)
(***************************************************************************)
Undefined == [t |-> "undefined"]
Null == [t |-> "null"]
Absent == [t |-> "absent"]
Bool(b) == [t |-> "boolean", b |-> b]
Str(cs) == [t |-> "string", s |-> cs]
NaN == [t |-> "number", k |-> "NaN"]
Infinity == [t |-> "number", k |-> "Infinity"]
NegInfinity == [t |-> "number", k |-> "-Infinity"]
Finite(neg, ds, n) == [t |-> "number", k |-> "finite", neg |-> neg, ds |-> ds, n |-> n]
ArrayRef(id) == [t |-> "array", ref |-> id]
\* a Buffer is its sequence of bytes
Buffer(bs) == [t |-> "buffer", bytes |-> bs]
\* a Date or moment object: its identity and its time value, a number of ms (the
\* time value of an invalid one is NaN: valid is FALSE and ms is not read)
DateObj(id, valid, ms) == [t |-> "date", id |-> id, valid |-> valid, ms |-> ms]
Moment(id, valid, ms) == [t |-> "moment", id |-> id, valid |-> valid, ms |-> ms]
\* a data-type class (a constructor function) and a descriptor used as a value
ClassRef(c) == [t |-> "function", cls |-> c]
TypeRef(c) == [t |-> "datatype", cls |-> c]

PropNames == {"length", "decimals", "unsigned", "zerofill", "precision", "scale", "values",
              "binary", "type", "srid", "subtype"}
NoProps == [p \in PropNames |-> Absent]
Obj(props) == [t |-> "object", o |-> props]

RECURSIVE DigitsOf(_)
DigitsOf(m) == IF m < 10 THEN <<m>> ELSE Append(DigitsOf(m \div 10), m % 10)

\* ds up to its last digit that is not 0
StripTrailingZeros(ds) ==
  LET kept == {m \in 1..Len(ds) : ds[m] # 0}
  IN IF kept = {} THEN <<>>
     ELSE SubSeq(ds, 1, CHOOSE m \in kept : \A x \in kept : x <= m)

\* ds from its first digit that is not 0
StripLeadingZeros(ds) ==
  LET kept == {m \in 1..Len(ds) : ds[m] # 0}
  IN IF kept = {} THEN <<>>
     ELSE SubSeq(ds, CHOOSE m \in kept : \A x \in kept : m <= x, Len(ds))

\* the number with integer value m
Num(m) ==
  IF m = 0 THEN Finite(FALSE, <<>>, 0)
  ELSE LET a == IF m < 0 THEN -m ELSE m
       IN Finite(m < 0, StripTrailingZeros(DigitsOf(a)), Len(DigitsOf(a)))

DigitChar == <<"0", "1", "2", "3", "4", "5", "6", "7", "8", "9">>
DigitChars(ds) == [i \in 1..Len(ds) |-> DigitChar[ds[i] + 1]]
Zeros(c) == [i \in 1..c |-> "0"]

TypeOf(v) ==
  IF v.t \in {"null", "array", "object", "buffer", "date", "moment", "datatype"}
    THEN "object" ELSE v.t

\* lodash isObject: objects, arrays and functions, not null
IsObject(v) == v.t \in {"object", "array", "function", "buffer", "date", "moment", "datatype"}

Truthy(v) ==
  CASE v.t \in {"undefined", "null"} -> FALSE
    [] v.t = "boolean" -> v.b
    [] v.t = "string" -> v.s # <<>>
    [] v.t = "number" -> ~(v.k = "NaN" \/ (v.k = "finite" /\ v.ds = <<>>))
    [] OTHER -> TRUE

NegZero == Finite(TRUE, <<>>, 0)

\* +0 and -0
IsZero(v) == v.t = "number" /\ v.k = "finite" /\ v.ds = <<>>

\* SameValueZero(a, b): NaN is NaN, -0 is +0, an object is itself
SameValueZero(a, b) ==
  CASE a.t # b.t -> FALSE
    [] a.t = "number" -> a = b \/ (IsZero(a) /\ IsZero(b))
    [] a.t \in {"date", "moment"} -> a.id = b.id
    [] OTHER -> a = b

\* Number::toString(x), radix 10
NumberToString(x) ==
  CASE x.k = "NaN" -> <<"N", "a", "N">>
    [] x.k = "Infinity" -> <<"I", "n", "f", "i", "n", "i", "t", "y">>
    [] x.k = "-Infinity" -> <<"-", "I", "n", "f", "i", "n", "i", "t", "y">>
    [] OTHER ->
       IF x.ds = <<>> THEN <<"0">>
       ELSE
         LET k == Len(x.ds)
             n == x.n
             d == DigitChars(x.ds)
             e == n - 1
             ea == IF e < 0 THEN -e ELSE e
             es == IF e < 0 THEN "-" ELSE "+"
             body ==
               IF k <= n /\ n <= 21 THEN d \o Zeros(n - k)
               ELSE IF 0 < n /\ n <= 21
                 THEN SubSeq(d, 1, n) \o <<".">> \o SubSeq(d, n + 1, k)
               ELSE IF -6 < n /\ n <= 0
                 THEN <<"0", ".">> \o Zeros(-n) \o d
               ELSE IF k = 1
                 THEN d \o <<"e", es>> \o DigitChars(DigitsOf(ea))
               ELSE <<d[1], ".">> \o Tail(d) \o <<"e", es>> \o DigitChars(DigitsOf(ea))
         IN (IF x.neg THEN <<"-">> ELSE <<>>) \o body

\* the characters of the codes 0 .. 127, in order. A character that a text of
\* the module cannot hold as itself is named by its escape \uXXXX; the name is
\* one character
AsciiChars ==
  <<
    "\\u0000", "\\u0001", "\\u0002", "\\u0003", "\\u0004", "\\u0005", "\\u0006", "\\u0007",
    "\\u0008", "\t", "\n", "\\u000b", "\f", "\r", "\\u000e", "\\u000f",
    "\\u0010", "\\u0011", "\\u0012", "\\u0013", "\\u0014", "\\u0015", "\\u0016", "\\u0017",
    "\\u0018", "\\u0019", "\\u001a", "\\u001b", "\\u001c", "\\u001d", "\\u001e", "\\u001f",
    " ", "!", "\"", "#", "$", "%", "&", "'",
    "(", ")", "*", "+", ",", "-", ".", "/",
    "0", "1", "2", "3", "4", "5", "6", "7",
    "8", "9", ":", ";", "<", "=", ">", "?",
    "@", "A", "B", "C", "D", "E", "F", "G",
    "H", "I", "J", "K", "L", "M", "N", "O",
    "P", "Q", "R", "S", "T", "U", "V", "W",
    "X", "Y", "Z", "[", "\\", "]", "^", "_",
    "\\u0060", "a", "b", "c", "d", "e", "f", "g",
    "h", "i", "j", "k", "l", "m", "n", "o",
    "p", "q", "r", "s", "t", "u", "v", "w",
    "x", "y", "z", "{", "|", "}", "~", "\\u007f"
  >>

\* buffer.toString(): the bytes read as UTF-8, of which the model holds the
\* one-byte characters
Utf8(bytes) == [i \in 1..Len(bytes) |-> AsciiChars[bytes[i] + 1]]

\* String(v) for the primitives and a Buffer
ToStr(v) ==
  CASE v.t = "string" -> v.s
    [] v.t = "number" -> NumberToString(v)
    [] v.t = "boolean" -> IF v.b THEN <<"t", "r", "u", "e">> ELSE <<"f", "a", "l", "s", "e">>
    [] v.t = "null" -> <<"n", "u", "l", "l">>
    [] v.t = "undefined" -> <<"u", "n", "d", "e", "f", "i", "n", "e", "d">>
    [] v.t = "buffer" /\ (\A i \in 1..Len(v.bytes) : v.bytes[i] < 128) -> Utf8(v.bytes)

\* a character sequence as one text
RECURSIVE Text(_)
Text(cs) == IF cs = <<>> THEN "" ELSE cs[1] \o Text(Tail(cs))

(***************************************************************************)
(* The class hierarchy.                                                    *)
(***************************************************************************)
IntegerTypes == {"INTEGER", "TINYINT", "SMALLINT", "MEDIUMINT", "BIGINT"}
FloatTypes == {"FLOAT", "REAL", "DOUBLE"}
NumericTypes == IntegerTypes \cup FloatTypes \cup {"DECIMAL"}
StringTypes == {"STRING", "CHAR"}
Classes == NumericTypes \cup StringTypes \cup {"NUMBER", "GEOMETRY", "AbstractDataType"}

Parent(c) ==
  CASE c \in {"TINYINT", "SMALLINT", "MEDIUMINT", "BIGINT"} -> "INTEGER"
    [] c \in {"REAL", "DOUBLE"} -> "FLOAT"
    [] c \in {"INTEGER", "FLOAT", "DECIMAL"} -> "NUMBER"
    [] c = "NUMBER" -> "AbstractDataType"
    [] c = "CHAR" -> "STRING"
    [] c \in {"STRING", "GEOMETRY"} -> "AbstractDataType"
    [] OTHER -> "none"

\* the methods a class body declares itself
OwnMethods(c) ==
  CASE c = "AbstractDataType" -> {"constructor", "toSql", "validate", "stringify",
                                  "bindParam", "sanitize", "areValuesEqual"}
    [] c = "NUMBER" -> {"constructor", "toSql", "validate", "stringify"}
    [] c = "INTEGER" -> {"validate"}
    [] c = "FLOAT" -> {"constructor", "validate", "stringify", "bindParam"}
    [] c = "DECIMAL" -> {"constructor", "toSql", "validate"}
    [] c = "STRING" -> {"constructor", "toSql", "validate"}
    [] c = "CHAR" -> {"toSql"}
    [] c = "GEOMETRY" -> {"constructor", "stringify", "bindParam"}
    [] OTHER -> {}

\* the class whose method m an instance of c runs
RECURSIVE Resolve(_, _)
Resolve(c, m) == IF m \in OwnMethods(c) THEN c ELSE Resolve(Parent(c), m)

\* the instance field `key`: every class of the family initialises it to its own name
KeyOf(c) == c

(***************************************************************************)
(* Numeric descriptors: constructors, toSql, UNSIGNED / ZEROFILL.          *)
(***************************************************************************)
Arg(args, i) == IF i <= Len(args) THEN args[i] ELSE Undefined

\* { ...source }
Spread(v) == IF v.t = "object" THEN v.o ELSE NoProps

NUMBER_constructor(optionsOrLength) ==
  IF IsObject(optionsOrLength)
    THEN Spread(optionsOrLength)
    ELSE [NoProps EXCEPT !["length"] = optionsOrLength]

FLOAT_constructor(length, decimals) ==
  NUMBER_constructor(
    IF TypeOf(length) = "object"
      THEN length
      ELSE Obj([NoProps EXCEPT !["length"] = length, !["decimals"] = decimals]))

DECIMAL_constructor(precisionOrOptions, scale) ==
  IF IsObject(precisionOrOptions)
    THEN NUMBER_constructor(precisionOrOptions)
    ELSE [NUMBER_constructor(Undefined) EXCEPT
            !["precision"] = precisionOrOptions, !["scale"] = scale]

\* Function.length of a data-type class: the parameters its constructor declares;
\* a class that declares none has the implicit constructor(...args), and a rest
\* parameter counts for none
CtorArity(c) ==
  CASE c \in {"STRING", "FLOAT", "DECIMAL", "VIRTUAL", "GEOMETRY"} -> 2
    [] c \in {"TEXT", "NUMBER", "DATE", "BLOB", "RANGE", "ARRAY"} -> 1
    [] OTHER -> 0

\* the built-in method `values` every array and every Buffer inherits
NativeValues == [t |-> "function", cls |-> "Array.prototype.values"]

\* v.p for a value that is neither undefined nor null, over the heap h of arrays:
\* an options object holds what was put in it; arrays, Buffers, strings and
\* functions have a length
GetIn(h, v, p) ==
  CASE v.t = "object" -> IF v.o[p] # Absent THEN v.o[p] ELSE Undefined
    [] p = "length" /\ v.t = "array" -> Num(Len(h[v.ref]))
    [] p = "length" /\ v.t = "buffer" -> Num(Len(v.bytes))
    [] p = "length" /\ v.t = "string" -> Num(Len(v.s))
    [] p = "length" /\ v.t = "function" -> Num(CtorArity(v.cls))
    [] p = "values" /\ v.t \in {"array", "buffer"} -> NativeValues
    [] OTHER -> Undefined

\* obj.p
Get(v, p) == GetIn(arrays, v, p)

\* a ?? b
Nullish(a, b) == IF a.t \in {"undefined", "null"} THEN b ELSE a

STRING_constructor(lengthOrOptions, binary) ==
  IF IsObject(lengthOrOptions)
    THEN [NoProps EXCEPT
            !["length"] = Nullish(Get(lengthOrOptions, "length"), Num(255)),
            !["binary"] = Nullish(Get(lengthOrOptions, "binary"), Bool(FALSE))]
    ELSE [NoProps EXCEPT
            !["length"] = Nullish(lengthOrOptions, Num(255)),
            !["binary"] = Nullish(binary, Bool(FALSE))]

GEOMETRY_constructor(typeOrOptions, srid) ==
  IF IsObject(typeOrOptions)
    THEN Spread(typeOrOptions)
    ELSE [NoProps EXCEPT !["type"] = typeOrOptions, !["srid"] = srid]

\* new cls(...args); frozen records Object.freeze(this.options), which only the
\* STRING constructor calls
Construct(cls, args) ==
  LET ctor == Resolve(cls, "constructor")
      options ==
        CASE ctor = "FLOAT" -> FLOAT_constructor(Arg(args, 1), Arg(args, 2))
          [] ctor = "DECIMAL" -> DECIMAL_constructor(Arg(args, 1), Arg(args, 2))
          [] ctor = "STRING" -> STRING_constructor(Arg(args, 1), Arg(args, 2))
          [] ctor = "GEOMETRY" -> GEOMETRY_constructor(Arg(args, 1), Arg(args, 2))
          [] OTHER -> NUMBER_constructor(Arg(args, 1))
  IN [cls |-> cls, key |-> KeyOf(cls), options |-> options, frozen |-> ctor = "STRING"]

\* this.options.p
Opt(d, p) == IF d.options[p] = Absent THEN Undefined ELSE d.options[p]

NUMBER_toSql(d) ==
  LET len == Opt(d, "length")
      dec == Opt(d, "decimals")
      group ==
        IF Truthy(len)
          THEN "(" \o Text(ToStr(len))
               \o (IF TypeOf(dec) = "number" THEN "," \o Text(ToStr(dec)) ELSE "")
               \o ")"
          ELSE ""
  IN d.key \o group
       \o (IF Truthy(Opt(d, "unsigned")) THEN " UNSIGNED" ELSE "")
       \o (IF Truthy(Opt(d, "zerofill")) THEN " ZEROFILL" ELSE "")

DECIMAL_toSql(d) ==
  LET p == Opt(d, "precision")
      s == Opt(d, "scale")
      kept == SelectSeq(<<p, s>>, LAMBDA x : x.t \notin {"undefined", "null"})
      joined ==
        CASE Len(kept) = 0 -> ""
          [] Len(kept) = 1 -> Text(ToStr(kept[1]))
          [] OTHER -> Text(ToStr(kept[1])) \o "," \o Text(ToStr(kept[2]))
  IN IF Truthy(p) \/ Truthy(s) THEN "DECIMAL(" \o joined \o ")" ELSE "DECIMAL"

ToSql(d) ==
  IF Resolve(d.cls, "toSql") = "DECIMAL" THEN DECIMAL_toSql(d) ELSE NUMBER_toSql(d)

\* AbstractDataType._construct: new this.constructor(...args)
ConstructLike(d, args) == Construct(d.cls, args)

\* the heap after the instance getter ran on objs[i]; the getter returns the last cell
InstanceModifier_InPlace(h, i, m) ==
  LET edited == [h[i] EXCEPT !.options[m] = Bool(TRUE)]
  IN Append([h EXCEPT ![i] = edited], edited)

InstanceModifier_NoSpread(h, i, m) ==
  Append(h, ConstructLike(h[i], <<Obj([NoProps EXCEPT ![m] = Bool(TRUE)])>>))

InstanceModifier(h, i, m) ==
  Append(h, ConstructLike(h[i], <<Obj([h[i].options EXCEPT ![m] = Bool(TRUE)])>>))

\* static get UNSIGNED / ZEROFILL: new this({ m: true })
StaticModifier_Positional(cls, m) ==
  Construct(cls, <<Bool(TRUE)>>)

StaticModifier(cls, m) ==
  Construct(cls, <<Obj([NoProps EXCEPT ![m] = Bool(TRUE)])>>)

Modifiers == {"unsigned", "zerofill"}

\* argument lists the model constructs numeric descriptors with
OptionBags ==
  { NoProps,
    [NoProps EXCEPT !["length"] = Num(5)],
    [NoProps EXCEPT !["unsigned"] = Bool(TRUE)],
    [NoProps EXCEPT !["unsigned"] = Bool(FALSE), !["zerofill"] = Bool(TRUE)],
    [NoProps EXCEPT !["length"] = Num(5), !["decimals"] = Num(2), !["zerofill"] = Bool(TRUE)],
    [NoProps EXCEPT !["precision"] = Num(10), !["scale"] = Num(2)],
    [NoProps EXCEPT !["precision"] = Num(10), !["unsigned"] = Bool(TRUE)],
    [NoProps EXCEPT !["scale"] = Num(2)] }

NumericArgs ==
  {<<>>, <<Num(0)>>, <<Num(5)>>, <<Num(5), Num(2)>>, <<Num(10), Num(0)>>,
   <<Undefined, Num(2)>>}
    \cup {<<Obj(b)>> : b \in OptionBags}

New(cls, args) ==
  /\ objs = <<>>
  /\ objs' = <<Construct(cls, args)>>
  /\ made' = <<[how |-> "new", cls |-> cls, args |-> args, from |-> 0,
                born |-> Construct(cls, args)]>>
  /\ UNCHANGED <<dialectVars, enumVars, valueVars>>

ReadStatic(cls, m) ==
  /\ objs = <<>>
  /\ objs' = <<StaticModifier(cls, m)>>
  /\ made' = <<[how |-> "static", cls |-> cls, args |-> <<>>, from |-> 0, mod |-> m,
                born |-> StaticModifier(cls, m)]>>
  /\ UNCHANGED <<dialectVars, enumVars, valueVars>>

ReadInstance(i, m) ==
  /\ Len(objs) < MaxObjs
  /\ objs' = InstanceModifier(objs, i, m)
  /\ made' = Append(made, [how |-> "instance", cls |-> objs[i].cls, args |-> <<>>,
                           from |-> i, mod |-> m,
                           born |-> objs'[Len(objs')]])
  /\ UNCHANGED <<dialectVars, enumVars, valueVars>>

NumInit ==
  /\ objs = <<>>
  /\ made = <<>>

IdleInit ==
  /\ ownTypes = [c \in Classes |-> 0]
  /\ protoTypes = [c \in Classes |-> 0]
  /\ tables = <<>>
  /\ calls = <<>>
  /\ regLog = <<>>
  /\ arrays = <<>>
  /\ bags = <<>>
  /\ enums = <<>>
  /\ enumLog = <<>>
  /\ val = Undefined
  /\ out = [op |-> "none"]

Init == NumInit /\ IdleInit

Next ==
  \/ \E cls \in NumericTypes, args \in NumericArgs : New(cls, args)
  \/ \E cls \in NumericTypes, m \in Modifiers : ReadStatic(cls, m)
  \/ \E i \in 1..Len(objs), m \in Modifiers : ReadInstance(i, m)

Spec == Init /\ [][Next]_vars

(***************************************************************************)
(* Dialect metadata: AbstractDataType[kSetDialectNames].                   *)
(* A class object and its prototype each may hold an own, non-writable,    *)
(* non-configurable property `types` that refers to a table object.        *)
(***************************************************************************)
Dialects == {"mysql", "postgres"}
Metas == {"m1", "m2"}
NoEntry == "no entry"
EmptyTable == [d \in Dialects |-> NoEntry]
RegClasses == {"NUMBER", "INTEGER", "TINYINT", "FLOAT"}

RECURSIVE Ancestors(_)
Ancestors(c) ==
  IF Parent(c) = "none" THEN {} ELSE {Parent(c)} \cup Ancestors(Parent(c))

\* Object.prototype.hasOwnProperty.call(this, 'types')
HasOwnTypes_Inherited(own, c) == \E a \in {c} \cup Ancestors(c) : own[a] # 0

HasOwnTypes(own, c) == own[c] # 0

\* Reflect.defineProperty of a non-configurable, non-writable data property: when
\* the property exists with another value the call returns false and changes nothing
ReflectDefineProperty_Overwrite(cur, new) == new

ReflectDefineProperty(cur, new) == IF cur = 0 THEN new ELSE cur

\* the lookup of `types` along the chain of classes (or of prototypes); 0: undefined
RECURSIVE ReadTypes(_, _)
ReadTypes(own, c) ==
  IF c = "none" THEN 0
  ELSE IF own[c] # 0 THEN own[c]
  ELSE ReadTypes(own, Parent(c))

\* lines 75-84: a fresh table, defined on the class and on its prototype
DefineTypes_ShareParent(D, c) ==
  LET id == IF ReadTypes(D.own, c) # 0 THEN ReadTypes(D.own, c) ELSE Len(D.tables) + 1
  IN [own |-> [D.own EXCEPT ![c] = ReflectDefineProperty(@, id)],
      proto |-> [D.proto EXCEPT ![c] = ReflectDefineProperty(@, id)],
      tables |-> Append(D.tables, EmptyTable)]

DefineTypes(D, c) ==
  LET id == Len(D.tables) + 1
  IN [own |-> [D.own EXCEPT ![c] = ReflectDefineProperty(@, id)],
      proto |-> [D.proto EXCEPT ![c] = ReflectDefineProperty(@, id)],
      tables |-> Append(D.tables, EmptyTable)]

\* line 87: this.types[dialect] = types
WriteEntry(D, c, dialect, types) ==
  [D EXCEPT !.tables[ReadTypes(D.own, c)][dialect] = types]

\* the whole call
SetDialectNames(D, c, dialect, types) ==
  WriteEntry(IF HasOwnTypes(D.own, c) THEN D ELSE DefineTypes(D, c), c, dialect, types)

DialectState == [own |-> ownTypes, proto |-> protoTypes, tables |-> tables]

Register(c, dialect, types) ==
  /\ Len(regLog) < MaxCalls
  /\ LET D == SetDialectNames(DialectState, c, dialect, types)
     IN /\ ownTypes' = D.own
        /\ protoTypes' = D.proto
        /\ tables' = D.tables
  /\ regLog' = Append(regLog, [cls |-> c, dialect |-> dialect, types |-> types])
  /\ UNCHANGED <<calls, numVars, enumVars, valueVars>>

NextDialect ==
  \E c \in RegClasses, d \in Dialects, m \in Metas : Register(c, d, m)

SpecDialect == Init /\ [][NextDialect]_vars

(***************************************************************************)
(* The same call taken statement by statement, for calls that interleave   *)
(* between the own-property test, the definition and the write.            *)
(***************************************************************************)
Begin(c, dialect, types) ==
  /\ Len(calls) < MaxRaceCalls
  /\ calls' = Append(calls, [cls |-> c, dialect |-> dialect, types |-> types,
                             pc |-> "check", own |-> FALSE])
  /\ UNCHANGED <<ownTypes, protoTypes, tables, regLog, numVars, enumVars, valueVars>>

Check(k) ==
  /\ calls[k].pc = "check"
  /\ LET has == HasOwnTypes(ownTypes, calls[k].cls)
     IN calls' = [calls EXCEPT ![k].own = has,
                               ![k].pc = IF has THEN "write" ELSE "define"]
  /\ UNCHANGED <<ownTypes, protoTypes, tables, regLog, numVars, enumVars, valueVars>>

Define(k) ==
  /\ calls[k].pc = "define"
  /\ LET D == DefineTypes(DialectState, calls[k].cls)
     IN /\ ownTypes' = D.own
        /\ protoTypes' = D.proto
        /\ tables' = D.tables
  /\ calls' = [calls EXCEPT ![k].pc = "write"]
  /\ UNCHANGED <<regLog, numVars, enumVars, valueVars>>

Write(k) ==
  /\ calls[k].pc = "write"
  /\ LET D == WriteEntry(DialectState, calls[k].cls, calls[k].dialect, calls[k].types)
     IN /\ ownTypes' = D.own
        /\ protoTypes' = D.proto
        /\ tables' = D.tables
  /\ calls' = [calls EXCEPT ![k].pc = "done"]
  /\ regLog' = Append(regLog, [cls |-> calls[k].cls, dialect |-> calls[k].dialect,
                               types |-> calls[k].types])
  /\ UNCHANGED <<numVars, enumVars, valueVars>>

NextDialectRace ==
  \/ \E c \in RegClasses, d \in Dialects, m \in Metas : Begin(c, d, m)
  \/ \E k \in 1..Len(calls) : Check(k)
  \/ \E k \in 1..Len(calls) : Define(k)
  \/ \E k \in 1..Len(calls) : Write(k)

SpecDialectRace == Init /\ [][NextDialectRace]_vars

(***************************************************************************)
(* ENUM: the constructor and its three calling conventions.                *)
(***************************************************************************)
CharA == <<"a">>
CharB == <<"b">>
EnumMembers == {Str(CharA), Str(CharB), Num(1), Undefined}

RECURSIVE SeqsUpTo(_, _)
SeqsUpTo(S, n) ==
  IF n = 0 THEN {<<>>}
  ELSE LET shorter == SeqsUpTo(S, n - 1)
       IN shorter \cup {Append(q, x) : q \in {r \in shorter : Len(r) = n - 1}, x \in S}

EnumLists == SeqsUpTo(EnumMembers, MaxListLen)

Thrown(e) == [ok |-> FALSE, err |-> e]
Returned(v) == [ok |-> TRUE, values |-> v]

\* lines 1215-1229: the value the three conventions take as `values`; rest is the
\* array of the arguments
EnumValues_OptionsOnly(args, rest) ==
  IF IsObject(Arg(args, 1)) THEN Get(Arg(args, 1), "values") ELSE ArrayRef(rest)

EnumValues(args, rest) ==
  IF IsObject(Arg(args, 1))
    THEN IF Arg(args, 1).t = "array" THEN Arg(args, 1) ELSE Get(Arg(args, 1), "values")
    ELSE ArrayRef(rest)

\* values.length; Absent stands for a property access on undefined or null
LengthOf(h, v) ==
  CASE v.t = "array" -> Num(Len(h[v.ref]))
    [] v.t = "string" -> Num(Len(v.s))
    [] v.t \in {"undefined", "null"} -> Absent
    [] OTHER -> GetIn(h, v, "length")

\* an array, a text and a Buffer can be iterated
Iterable(v) == v.t \in {"array", "string", "buffer"}

\* the members `for (const value of values)` visits: the elements of an array,
\* the characters of a text, the bytes of a Buffer
MembersOf(h, v) ==
  CASE v.t = "array" -> h[v.ref]
    [] v.t = "string" -> [i \in 1..Len(v.s) |-> Str(<<v.s[i]>>)]
    [] v.t = "buffer" -> [i \in 1..Len(v.bytes) |-> Num(v.bytes[i])]

\* lines 1231-1239: the error the checks of `values` raise, "" when they pass
EnumCheck_NoEmptyTest(h, values) ==
  CASE LengthOf(h, values) = Absent -> "TypeError: cannot read properties"
    [] ~Iterable(values) -> "TypeError: values is not iterable"
    [] \E i \in 1..Len(MembersOf(h, values)) : TypeOf(MembersOf(h, values)[i]) # "string"
         -> "TypeError: a value is not a string"
    [] OTHER -> ""

EnumCheck(h, values) ==
  CASE LengthOf(h, values) = Absent -> "TypeError: cannot read properties"
    [] LengthOf(h, values) = Num(0) -> "TypeError: ENUM cannot be used without values"
    [] ~Iterable(values) -> "TypeError: values is not iterable"
    [] \E i \in 1..Len(MembersOf(h, values)) : TypeOf(MembersOf(h, values)[i]) # "string"
         -> "TypeError: a value is not a string"
    [] OTHER -> ""

\* new ENUM(...args), the arguments being held by the array h[rest]
ENUM_constructor(h, rest) ==
  LET args == h[rest]
  IN IF IsObject(Arg(args, 1)) /\ Len(args) > 1
       THEN Thrown("TypeError: ENUM has been constructed incorrectly")
       ELSE LET values == EnumValues(args, rest)
            IN IF EnumCheck(h, values) # ""
                 THEN Thrown(EnumCheck(h, values))
                 ELSE Returned(values)

\* a call new ENUM(...args) over the heap h, in which the caller has allocated its
\* arrays; conv and list say what the caller meant to pass
EnumCall(conv, list, h, args) ==
  LET rest == Len(h) + 1
      h2 == Append(h, args)
      r == ENUM_constructor(h2, rest)
  IN /\ Len(enumLog) < MaxEnumCalls
     /\ arrays' = h2
     /\ enums' = IF r.ok
                   THEN Append(enums, [cls |-> "ENUM", key |-> "ENUM",
                                       options |-> [values |-> r.values],
                                       frozen |-> FALSE])
                   ELSE enums
     /\ enumLog' = Append(enumLog, [conv |-> conv, list |-> list, nargs |-> Len(args),
                                    ok |-> r.ok, made |-> IF r.ok THEN Len(enums) + 1 ELSE 0,
                                    born |-> IF r.ok THEN MembersOf(h2, r.values) ELSE <<>>])
     /\ UNCHANGED <<bags, numVars, dialectVars, valueVars>>

ExtraArgs == {<<>>, <<Str(CharA)>>}

\* ENUM('a', 'b')
EnumVariadic(list) == EnumCall("variadic", list, arrays, list)

\* ENUM(['a', 'b']), possibly followed by further arguments
EnumArray(list, extra) ==
  EnumCall("array", list, Append(arrays, list), <<ArrayRef(Len(arrays) + 1)>> \o extra)

\* ENUM({ values: ['a', 'b'] }), possibly followed by further arguments
EnumOptions(list, extra) ==
  EnumCall("options", list, Append(arrays, list),
           <<Obj([NoProps EXCEPT !["values"] = ArrayRef(Len(arrays) + 1)])>> \o extra)

\* ENUM({ values: v }) for a v that is no array: a text, or nothing at all
OddValues == {Absent, Str(<<>>), Str(<<"a", "b">>), Num(1), Buffer(<<1>>)}
EnumOptionsOdd(v) ==
  EnumCall("odd", <<>>, arrays, <<Obj([NoProps EXCEPT !["values"] = v])>>)

\* text.includes(part): part occurs in text
IsSubstring(part, text) ==
  \E i \in 0..(Len(text) - Len(part)) : SubSeq(text, i + 1, i + Len(part)) = part

\* ENUM.validate: this.options.values.includes(value), of an array by
\* SameValueZero and of a text by substring
ENUM_validate(h, d, v) ==
  LET values == d.options.values
      found == IF values.t = "array"
                 THEN \E j \in 1..Len(h[values.ref]) : SameValueZero(h[values.ref][j], v)
               ELSE IsSubstring(ToStr(v), values.s)
  IN IF ~found THEN [ok |-> FALSE, err |-> "ValidationError", text |-> ""]
     ELSE [ok |-> TRUE, err |-> "", text |-> ""]

EnumCandidates == {Str(CharA), Str(CharB), Str(<<"a", "b">>), Num(1), Undefined}

EnumValidate(i, v) ==
  /\ out' = [op |-> "validate", cls |-> "ENUM", a |-> v, of |-> i,
             res |-> ENUM_validate(arrays, enums[i], v)]
  /\ UNCHANGED <<val, numVars, dialectVars, enumVars>>

NextEnum ==
  \/ \E list \in EnumLists : EnumVariadic(list)
  \/ \E list \in EnumLists, extra \in ExtraArgs : EnumArray(list, extra)
  \/ \E list \in EnumLists, extra \in ExtraArgs : EnumOptions(list, extra)
  \/ \E v \in OddValues : EnumOptionsOdd(v)
  \/ \E i \in 1..Len(enums), v \in EnumCandidates : EnumValidate(i, v)

SpecEnum == Init /\ [][NextEnum]_vars

(***************************************************************************)
(* The numeric-format predicates of the validator (utils/validator-extras  *)
(* over validator.js), on the characters of a text.                        *)
(***************************************************************************)
Digits == {"0", "1", "2", "3", "4", "5", "6", "7", "8", "9"}
At(cs, i) == IF i <= Len(cs) THEN cs[i] ELSE ""

\* the index after the run of digits that starts at i
SkipDigits(cs, i) ==
  LET stops == {m \in i..Len(cs) : cs[m] \notin Digits}
  IN CASE stops # {} -> CHOOSE m \in stops : \A x \in stops : m <= x
       [] i > Len(cs) -> i
       [] OTHER -> Len(cs) + 1

\* the index after (?:[eE][+-]?[0-9]+)? matched at i
SkipExponent(cs, i) ==
  LET j == IF At(cs, i + 1) \in {"+", "-"} THEN i + 2 ELSE i + 1
  IN IF At(cs, i) \in {"e", "E"} /\ SkipDigits(cs, j) > j THEN SkipDigits(cs, j) ELSE i

\* the index after (?:\.[0-9]*)? matched at i
SkipFraction(cs, i) == IF At(cs, i) = "." THEN SkipDigits(cs, i + 1) ELSE i

\* validator.isInt: /^(?:[-+]?(?:0|[1-9][0-9]*))$/
IsInt(cs) ==
  LET i == IF At(cs, 1) \in {"+", "-"} THEN 2 ELSE 1
  IN \/ (At(cs, i) = "0" /\ Len(cs) = i)
     \/ (At(cs, i) \in Digits \ {"0"} /\ SkipDigits(cs, i) = Len(cs) + 1)

\* validator.isFloat: /^(?:[-+])?(?:[0-9]+)?(?:\.[0-9]*)?(?:[eE][\+\-]?(?:[0-9]+))?$/
IsFloat(cs) ==
  LET i == IF At(cs, 1) \in {"+", "-"} THEN 2 ELSE 1
  IN /\ cs \notin {<<>>, <<".">>, <<",">>, <<"-">>, <<"+">>}
     /\ SkipExponent(cs, SkipFraction(cs, SkipDigits(cs, i))) = Len(cs) + 1

\* Validator.isDecimal: str !== '' && /^(?:-?\d+)?(?:\.\d*)?(?:[Ee][+-]?\d+)?$/
IsDecimal(cs) ==
  LET i == IF At(cs, 1) = "-" THEN 2 ELSE 1
      j == IF SkipDigits(cs, i) > i THEN SkipDigits(cs, i) ELSE 1
  IN /\ cs # <<>>
     /\ SkipExponent(cs, SkipFraction(cs, j)) = Len(cs) + 1

(***************************************************************************)
(* validate and stringify of the numeric family.                           *)
(***************************************************************************)
Passed == [ok |-> TRUE, err |-> "", text |-> ""]
Raised(e) == [ok |-> FALSE, err |-> e, text |-> ""]
Gave(text) == [ok |-> TRUE, err |-> "", text |-> text]

NUMBER_validate(v) ==
  IF ~IsFloat(ToStr(v)) THEN Raised("ValidationError") ELSE Passed

INTEGER_validate_AsFloat(v) ==
  IF ~IsFloat(ToStr(v)) THEN Raised("ValidationError") ELSE Passed

INTEGER_validate(v) ==
  IF ~IsInt(ToStr(v)) THEN Raised("ValidationError") ELSE Passed

FLOAT_validate(v) ==
  IF ~IsFloat(ToStr(v)) THEN Raised("ValidationError") ELSE Passed

DECIMAL_validate(v) ==
  IF ~IsDecimal(ToStr(v)) THEN Raised("ValidationError") ELSE Passed

\* d.validate(v) for an instance of cls
Validate(cls, v) ==
  LET m == Resolve(cls, "validate")
  IN CASE m = "INTEGER" -> INTEGER_validate(v)
       [] m = "FLOAT" -> FLOAT_validate(v)
       [] m = "DECIMAL" -> DECIMAL_validate(v)
       [] m = "NUMBER" -> NUMBER_validate(v)
       [] OTHER -> Passed

DigitValue(c) == CHOOSE d \in 0..9 : DigitChar[d + 1] = c
RECURSIVE DecimalValue(_)
DecimalValue(cs) ==
  IF cs = <<>> THEN 0
  ELSE DecimalValue(SubSeq(cs, 1, Len(cs) - 1)) * 10 + DigitValue(cs[Len(cs)])

InfinityText == <<"I", "n", "f", "i", "n", "i", "t", "y">>

\* StrWhiteSpaceChar: the white space and the line terminators, as themselves
\* and by their names
WhiteSpace ==
  {" ", "\t", "\n", "\r", "\f",
   "\\u0009", "\\u000a", "\\u000b", "\\u000c", "\\u000d", "\\u00a0", "\\u1680",
   "\\u2000", "\\u2001", "\\u2002", "\\u2003", "\\u2004", "\\u2005", "\\u2006",
   "\\u2007", "\\u2008", "\\u2009", "\\u200a", "\\u2028", "\\u2029", "\\u202f",
   "\\u205f", "\\u3000", "\\ufeff"}

\* cs from its first character that is no white space
TrimStart(cs) ==
  LET kept == {m \in 1..Len(cs) : cs[m] \notin WhiteSpace}
  IN IF kept = {} THEN <<>>
     ELSE SubSeq(cs, CHOOSE m \in kept : \A x \in kept : m <= x, Len(cs))

\* cs up to its last character that is no white space
TrimEnd(cs) ==
  LET kept == {m \in 1..Len(cs) : cs[m] \notin WhiteSpace}
  IN IF kept = {} THEN <<>>
     ELSE SubSeq(cs, 1, CHOOSE m \in kept : \A x \in kept : x <= m)

\* the digits of the radixes 2, 8 and 16, in order of value
RadixChars ==
  <<{"0"}, {"1"}, {"2"}, {"3"}, {"4"}, {"5"}, {"6"}, {"7"}, {"8"}, {"9"},
    {"a", "A"}, {"b", "B"}, {"c", "C"}, {"d", "D"}, {"e", "E"}, {"f", "F"}>>

\* the radix of a NonDecimalIntegerLiteral (0x, 0o, 0b and digits), 0 for none
RadixOf(cs) ==
  LET r == CASE At(cs, 2) \in {"x", "X"} -> 16
             [] At(cs, 2) \in {"o", "O"} -> 8
             [] At(cs, 2) \in {"b", "B"} -> 2
             [] OTHER -> 0
  IN IF /\ r # 0
        /\ At(cs, 1) = "0"
        /\ Len(cs) > 2
        /\ \A i \in 3..Len(cs) : \E d \in 1..r : cs[i] \in RadixChars[d]
       THEN r ELSE 0

RECURSIVE RadixValue(_, _)
RadixValue(cs, r) ==
  IF cs = <<>> THEN 0
  ELSE RadixValue(SubSeq(cs, 1, Len(cs) - 1), r) * r
         + (CHOOSE d \in 0..(r - 1) : cs[Len(cs)] \in RadixChars[d + 1])

\* 0.a < 0.b for two sequences of decimal digits: at the first place where they
\* differ, a sequence that has ended counting as 0, a has the smaller digit
DigitsLess(a, b) ==
  LET da(m) == IF m <= Len(a) THEN a[m] ELSE 0
      db(m) == IF m <= Len(b) THEN b[m] ELSE 0
      differ == {m \in 1..Len(a) + Len(b) : da(m) # db(m)}
  IN differ # {} /\ LET first == CHOOSE m \in differ : \A x \in differ : m <= x
                    IN da(first) < db(first)

\* the decimal digits, all of them, of 2^1024 - 2^970 = 0.1797... * 10^309, from
\* which a text rounds to Infinity, of 2^-1075 = 0.2470... * 10^-323, up to which
\* it rounds to zero, and of 3 * 2^-1075 = 0.7410... * 10^-323, from which it
\* rounds to the second subnormal 2^-1073 (a tie goes to the even significand)
OverflowEdge ==
  <<
    1, 7, 9, 7, 6, 9, 3, 1, 3, 4, 8, 6, 2, 3, 1, 5, 8, 0, 7, 9, 3, 7, 2, 8, 9, 7, 1, 4, 0, 5,
    3, 0, 3, 4, 1, 5, 0, 7, 9, 9, 3, 4, 1, 3, 2, 7, 1, 0, 0, 3, 7, 8, 2, 6, 9, 3, 6, 1, 7, 3,
    7, 7, 8, 9, 8, 0, 4, 4, 4, 9, 6, 8, 2, 9, 2, 7, 6, 4, 7, 5, 0, 9, 4, 6, 6, 4, 9, 0, 1, 7,
    9, 7, 7, 5, 8, 7, 2, 0, 7, 0, 9, 6, 3, 3, 0, 2, 8, 6, 4, 1, 6, 6, 9, 2, 8, 8, 7, 9, 1, 0,
    9, 4, 6, 5, 5, 5, 5, 4, 7, 8, 5, 1, 9, 4, 0, 4, 0, 2, 6, 3, 0, 6, 5, 7, 4, 8, 8, 6, 7, 1,
    5, 0, 5, 8, 2, 0, 6, 8, 1, 9, 0, 8, 9, 0, 2, 0, 0, 0, 7, 0, 8, 3, 8, 3, 6, 7, 6, 2, 7, 3,
    8, 5, 4, 8, 4, 5, 8, 1, 7, 7, 1, 1, 5, 3, 1, 7, 6, 4, 4, 7, 5, 7, 3, 0, 2, 7, 0, 0, 6, 9,
    8, 5, 5, 5, 7, 1, 3, 6, 6, 9, 5, 9, 6, 2, 2, 8, 4, 2, 9, 1, 4, 8, 1, 9, 8, 6, 0, 8, 3, 4,
    9, 3, 6, 4, 7, 5, 2, 9, 2, 7, 1, 9, 0, 7, 4, 1, 6, 8, 4, 4, 4, 3, 6, 5, 5, 1, 0, 7, 0, 4,
    3, 4, 2, 7, 1, 1, 5, 5, 9, 6, 9, 9, 5, 0, 8, 0, 9, 3, 0, 4, 2, 8, 8, 0, 1, 7, 7, 9, 0, 4,
    1, 7, 4, 4, 9, 7, 7, 9, 2
  >>

UnderflowEdge ==
  <<
    2, 4, 7, 0, 3, 2, 8, 2, 2, 9, 2, 0, 6, 2, 3, 2, 7, 2, 0, 8, 8, 2, 8, 4, 3, 9, 6, 4, 3, 4,
    1, 1, 0, 6, 8, 6, 1, 8, 2, 5, 2, 9, 9, 0, 1, 3, 0, 7, 1, 6, 2, 3, 8, 2, 2, 1, 2, 7, 9, 2,
    8, 4, 1, 2, 5, 0, 3, 3, 7, 7, 5, 3, 6, 3, 5, 1, 0, 4, 3, 7, 5, 9, 3, 2, 6, 4, 9, 9, 1, 8,
    1, 8, 0, 8, 1, 7, 9, 9, 6, 1, 8, 9, 8, 9, 8, 2, 8, 2, 3, 4, 7, 7, 2, 2, 8, 5, 8, 8, 6, 5,
    4, 6, 3, 3, 2, 8, 3, 5, 5, 1, 7, 7, 9, 6, 9, 8, 9, 8, 1, 9, 9, 3, 8, 7, 3, 9, 8, 0, 0, 5,
    3, 9, 0, 9, 3, 9, 0, 6, 3, 1, 5, 0, 3, 5, 6, 5, 9, 5, 1, 5, 5, 7, 0, 2, 2, 6, 3, 9, 2, 2,
    9, 0, 8, 5, 8, 3, 9, 2, 4, 4, 9, 1, 0, 5, 1, 8, 4, 4, 3, 5, 9, 3, 1, 8, 0, 2, 8, 4, 9, 9,
    3, 6, 5, 3, 6, 1, 5, 2, 5, 0, 0, 3, 1, 9, 3, 7, 0, 4, 5, 7, 6, 7, 8, 2, 4, 9, 2, 1, 9, 3,
    6, 5, 6, 2, 3, 6, 6, 9, 8, 6, 3, 6, 5, 8, 4, 8, 0, 7, 5, 7, 0, 0, 1, 5, 8, 5, 7, 6, 9, 2,
    6, 9, 9, 0, 3, 7, 0, 6, 3, 1, 1, 9, 2, 8, 2, 7, 9, 5, 5, 8, 5, 5, 1, 3, 3, 2, 9, 2, 7, 8,
    3, 4, 3, 3, 8, 4, 0, 9, 3, 5, 1, 9, 7, 8, 0, 1, 5, 5, 3, 1, 2, 4, 6, 5, 9, 7, 2, 6, 3, 5,
    7, 9, 5, 7, 4, 6, 2, 2, 7, 6, 6, 4, 6, 5, 2, 7, 2, 8, 2, 7, 2, 2, 0, 0, 5, 6, 3, 7, 4, 0,
    0, 6, 4, 8, 5, 4, 9, 9, 9, 7, 7, 0, 9, 6, 5, 9, 9, 4, 7, 0, 4, 5, 4, 0, 2, 0, 8, 2, 8, 1,
    6, 6, 2, 2, 6, 2, 3, 7, 8, 5, 7, 3, 9, 3, 4, 5, 0, 7, 3, 6, 3, 3, 9, 0, 0, 7, 9, 6, 7, 7,
    6, 1, 9, 3, 0, 5, 7, 7, 5, 0, 6, 7, 4, 0, 1, 7, 6, 3, 2, 4, 6, 7, 3, 6, 0, 0, 9, 6, 8, 9,
    5, 1, 3, 4, 0, 5, 3, 5, 5, 3, 7, 4, 5, 8, 5, 1, 6, 6, 6, 1, 1, 3, 4, 2, 2, 3, 7, 6, 6, 6,
    7, 8, 6, 0, 4, 1, 6, 2, 1, 5, 9, 6, 8, 0, 4, 6, 1, 9, 1, 4, 4, 6, 7, 2, 9, 1, 8, 4, 0, 3,
    0, 0, 5, 3, 0, 0, 5, 7, 5, 3, 0, 8, 4, 9, 0, 4, 8, 7, 6, 5, 3, 9, 1, 7, 1, 1, 3, 8, 6, 5,
    9, 1, 6, 4, 6, 2, 3, 9, 5, 2, 4, 9, 1, 2, 6, 2, 3, 6, 5, 3, 8, 8, 1, 8, 7, 9, 6, 3, 6, 2,
    3, 9, 3, 7, 3, 2, 8, 0, 4, 2, 3, 8, 9, 1, 0, 1, 8, 6, 7, 2, 3, 4, 8, 4, 9, 7, 6, 6, 8, 2,
    3, 5, 0, 8, 9, 8, 6, 3, 3, 8, 8, 5, 8, 7, 9, 2, 5, 6, 2, 8, 3, 0, 2, 7, 5, 5, 9, 9, 5, 6,
    5, 7, 5, 2, 4, 4, 5, 5, 5, 0, 7, 2, 5, 5, 1, 8, 9, 3, 1, 3, 6, 9, 0, 8, 3, 6, 2, 5, 4, 7,
    7, 9, 1, 8, 6, 9, 4, 8, 6, 6, 7, 9, 9, 4, 9, 6, 8, 3, 2, 4, 0, 4, 9, 7, 0, 5, 8, 2, 1, 0,
    2, 8, 5, 1, 3, 1, 8, 5, 4, 5, 1, 3, 9, 6, 2, 1, 3, 8, 3, 7, 7, 2, 2, 8, 2, 6, 1, 4, 5, 4,
    3, 7, 6, 9, 3, 4, 1, 2, 5, 3, 2, 0, 9, 8, 5, 9, 1, 3, 2, 7, 6, 6, 7, 2, 3, 6, 3, 2, 8, 1,
    2, 5
  >>

SubnormalEdge ==
  <<
    7, 4, 1, 0, 9, 8, 4, 6, 8, 7, 6, 1, 8, 6, 9, 8, 1, 6, 2, 6, 4, 8, 5, 3, 1, 8, 9, 3, 0, 2,
    3, 3, 2, 0, 5, 8, 5, 4, 7, 5, 8, 9, 7, 0, 3, 9, 2, 1, 4, 8, 7, 1, 4, 6, 6, 3, 8, 3, 7, 8,
    5, 2, 3, 7, 5, 1, 0, 1, 3, 2, 6, 0, 9, 0, 5, 3, 1, 3, 1, 2, 7, 7, 9, 7, 9, 4, 9, 7, 5, 4,
    5, 4, 2, 4, 5, 3, 9, 8, 8, 5, 6, 9, 6, 9, 4, 8, 4, 7, 0, 4, 3, 1, 6, 8, 5, 7, 6, 5, 9, 6,
    3, 8, 9, 9, 8, 5, 0, 6, 5, 5, 3, 3, 9, 0, 9, 6, 9, 4, 5, 9, 8, 1, 6, 2, 1, 9, 4, 0, 1, 6,
    1, 7, 2, 8, 1, 7, 1, 8, 9, 4, 5, 1, 0, 6, 9, 7, 8, 5, 4, 6, 7, 1, 0, 6, 7, 9, 1, 7, 6, 8,
    7, 2, 5, 7, 5, 1, 7, 7, 3, 4, 7, 3, 1, 5, 5, 5, 3, 3, 0, 7, 7, 9, 5, 4, 0, 8, 5, 4, 9, 8,
    0, 9, 6, 0, 8, 4, 5, 7, 5, 0, 0, 9, 5, 8, 1, 1, 1, 3, 7, 3, 0, 3, 4, 7, 4, 7, 6, 5, 8, 0,
    9, 6, 8, 7, 1, 0, 0, 9, 5, 9, 0, 9, 7, 5, 4, 4, 2, 2, 7, 1, 0, 0, 4, 7, 5, 7, 3, 0, 7, 8,
    0, 9, 7, 1, 1, 1, 1, 8, 9, 3, 5, 7, 8, 4, 8, 3, 8, 6, 7, 5, 6, 5, 3, 9, 9, 8, 7, 8, 3, 5,
    0, 3, 0, 1, 5, 2, 2, 8, 0, 5, 5, 9, 3, 4, 0, 4, 6, 5, 9, 3, 7, 3, 9, 7, 9, 1, 7, 9, 0, 7,
    3, 8, 7, 2, 3, 8, 6, 8, 2, 9, 9, 3, 9, 5, 8, 1, 8, 4, 8, 1, 6, 6, 0, 1, 6, 9, 1, 2, 2, 0,
    1, 9, 4, 5, 6, 4, 9, 9, 9, 3, 1, 2, 8, 9, 7, 9, 8, 4, 1, 1, 3, 6, 2, 0, 6, 2, 4, 8, 4, 4,
    9, 8, 6, 7, 8, 7, 1, 3, 5, 7, 2, 1, 8, 0, 3, 5, 2, 2, 0, 9, 0, 1, 7, 0, 2, 3, 9, 0, 3, 2,
    8, 5, 7, 9, 1, 7, 3, 2, 5, 2, 0, 2, 2, 0, 5, 2, 8, 9, 7, 4, 0, 2, 0, 8, 0, 2, 9, 0, 6, 8,
    5, 4, 0, 2, 1, 6, 0, 6, 6, 1, 2, 3, 7, 5, 5, 4, 9, 9, 8, 3, 4, 0, 2, 6, 7, 1, 3, 0, 0, 0,
    3, 5, 8, 1, 2, 4, 8, 6, 4, 7, 9, 0, 4, 1, 3, 8, 5, 7, 4, 3, 4, 0, 1, 8, 7, 5, 5, 2, 0, 9,
    0, 1, 5, 9, 0, 1, 7, 2, 5, 9, 2, 5, 4, 7, 1, 4, 6, 2, 9, 6, 1, 7, 5, 1, 3, 4, 1, 5, 9, 7,
    7, 4, 9, 3, 8, 7, 1, 8, 5, 7, 4, 7, 3, 7, 8, 7, 0, 9, 6, 1, 6, 4, 5, 6, 3, 8, 9, 0, 8, 7,
    1, 8, 1, 1, 9, 8, 4, 1, 2, 7, 1, 6, 7, 3, 0, 5, 6, 0, 1, 7, 0, 4, 5, 4, 9, 3, 0, 0, 4, 7,
    0, 5, 2, 6, 9, 5, 9, 0, 1, 6, 5, 7, 6, 3, 7, 7, 6, 8, 8, 4, 9, 0, 8, 2, 6, 7, 9, 8, 6, 9,
    7, 2, 5, 7, 3, 3, 6, 6, 5, 2, 1, 7, 6, 5, 5, 6, 7, 9, 4, 1, 0, 7, 2, 5, 0, 8, 7, 6, 4, 3,
    3, 7, 5, 6, 0, 8, 4, 6, 0, 0, 3, 9, 8, 4, 9, 0, 4, 9, 7, 2, 1, 4, 9, 1, 1, 7, 4, 6, 3, 0,
    8, 5, 5, 3, 9, 5, 5, 6, 3, 5, 4, 1, 8, 8, 6, 4, 1, 5, 1, 3, 1, 6, 8, 4, 7, 8, 4, 3, 6, 3,
    1, 3, 0, 8, 0, 2, 3, 7, 5, 9, 6, 2, 9, 5, 7, 7, 3, 9, 8, 3, 0, 0, 1, 7, 0, 8, 9, 8, 4, 3,
    7, 5
  >>

\* Number(text): white space is trimmed; the empty text is 0; a hexadecimal,
\* octal or binary literal (unsigned, below 2^31 in the model) is its value; a
\* decimal literal is the nearest double. A text of value 0.ds * 10^n rounds to
\* Infinity from OverflowEdge on, to zero up to UnderflowEdge, and to one of the
\* two smallest subnormals below 1e-323; from 1e-307 on a double tells apart
\* every two texts of at most 15 significant digits, so that such a text is the
\* number it writes. The nearest double of a longer text and of a text between
\* 1e-323 and 1e-307 is outside the model.
StringToNumber(text) ==
  LET cs == TrimEnd(TrimStart(text))
      signed == At(cs, 1) \in {"+", "-"}
      neg == At(cs, 1) = "-"
      i == IF signed THEN 2 ELSE 1
      j == SkipDigits(cs, i)
      k == SkipFraction(cs, j)
      l == SkipExponent(cs, k)
      intPart == SubSeq(cs, i, j - 1)
      fracPart == SubSeq(cs, j + 1, k - 1)
      expSigned == At(cs, k + 1) \in {"+", "-"}
      expDigits == SubSeq(cs, IF expSigned THEN k + 2 ELSE k + 1, l - 1)
      expAbs == IF l > k THEN DecimalValue(expDigits) ELSE 0
      exp == IF At(cs, k + 1) = "-" THEN -expAbs ELSE expAbs
      all == [x \in 1..Len(intPart \o fracPart) |-> DigitValue((intPart \o fracPart)[x])]
      lead == Len(all) - Len(StripLeadingZeros(all))
      ds == StripTrailingZeros(StripLeadingZeros(all))
      n == Len(intPart) - lead + exp
  IN CASE cs = <<>> -> Finite(FALSE, <<>>, 0)
       [] RadixOf(cs) # 0 -> Num(RadixValue(SubSeq(cs, 3, Len(cs)), RadixOf(cs)))
       [] SubSeq(cs, i, Len(cs)) = InfinityText -> IF neg THEN NegInfinity ELSE Infinity
       [] l # Len(cs) + 1 \/ Len(intPart) + Len(fracPart) = 0 -> NaN
       [] ds = <<>> -> Finite(neg, <<>>, 0)
       [] n > 309 \/ (n = 309 /\ ~DigitsLess(ds, OverflowEdge)) ->
            IF neg THEN NegInfinity ELSE Infinity
       [] n < -323 \/ (n = -323 /\ ~DigitsLess(UnderflowEdge, ds)) -> Finite(neg, <<>>, 0)
       [] n = -323 /\ DigitsLess(ds, SubnormalEdge) -> Finite(neg, <<5>>, -323)
       [] n = -323 -> Finite(neg, <<1>>, -322)
       [] n > -307 /\ Len(ds) <= 15 -> Finite(neg, ds, n)

\* FLOAT._value
FLOAT_value(v) ==
  LET num == IF TypeOf(v) = "number" THEN v ELSE StringToNumber(ToStr(v))
  IN CASE num.k = "NaN" -> <<"N", "a", "N">>
       [] num.k = "Infinity" -> InfinityText
       [] num.k = "-Infinity" -> <<"-">> \o InfinityText
       [] OTHER -> NumberToString(num)

FLOAT_stringify(cls, v) ==
  IF ~Validate(cls, v).ok THEN Validate(cls, v)
  ELSE Gave("'" \o Text(FLOAT_value(v)) \o "'")

\* stringify that checks with NUMBER's own validate instead of the instance's
NUMBER_stringify_OwnValidate(cls, v) ==
  IF ~NUMBER_validate(v).ok THEN NUMBER_validate(v)
  ELSE Gave(Text(ToStr(v)))

\* NUMBER.stringify: this.validate(number) is the validate of the instance's class
NUMBER_stringify(cls, v) ==
  IF ~Validate(cls, v).ok THEN Validate(cls, v)
  ELSE Gave(Text(ToStr(v)))

\* d.stringify(v) for an instance of cls
Stringify(cls, v) ==
  IF Resolve(cls, "stringify") = "FLOAT" THEN FLOAT_stringify(cls, v)
  ELSE NUMBER_stringify(cls, v)

\* the values handed to validate and stringify
TextChars == {"0", "3", ".", "-", "+", "e"}
SampleTexts ==
  { <<"3", ".", "1", "4">>, <<"-", "3", ".", "1", "4">>, <<"N", "a", "N">>, InfinityText,
    <<"1", "2", "0">>, <<"0", "0", "7">>, <<"3", "E", "3">>, <<"a", "b", "c">> }
SampleValues ==
  { Num(0), Num(3), Num(-3), Num(120), Finite(FALSE, <<3, 1, 4>>, 1),
    Finite(TRUE, <<5>>, 0), Finite(FALSE, <<1>>, 22), Finite(FALSE, <<1>>, -6),
    NaN, Infinity, NegInfinity, Bool(TRUE), Bool(FALSE), Null, Undefined }
Values ==
  {Str(cs) : cs \in SeqsUpTo(TextChars, MaxStrLen) \cup SampleTexts} \cup SampleValues

ValueInit ==
  /\ val \in Values
  /\ out = [op |-> "none"]
  /\ ownTypes = [c \in Classes |-> 0]
  /\ protoTypes = [c \in Classes |-> 0]
  /\ tables = <<>>
  /\ calls = <<>>
  /\ regLog = <<>>
  /\ arrays = <<>>
  /\ bags = <<>>
  /\ enums = <<>>
  /\ enumLog = <<>>
  /\ NumInit

CallValidate(cls) ==
  /\ out' = [op |-> "validate", cls |-> cls, res |-> Validate(cls, val)]
  /\ UNCHANGED <<val, numVars, dialectVars, enumVars>>

CallStringify(cls) ==
  /\ out' = [op |-> "stringify", cls |-> cls, res |-> Stringify(cls, val)]
  /\ UNCHANGED <<val, numVars, dialectVars, enumVars>>

\* the classes whose instances stringify numbers: the family and its base NUMBER
StringifyTypes == NumericTypes \cup {"NUMBER"}

NextValue ==
  \/ \E cls \in NumericTypes : CallValidate(cls)
  \/ \E cls \in StringifyTypes : CallStringify(cls)

SpecValue == ValueInit /\ [][NextValue]_vars

(***************************************************************************)
(* STRING and CHAR, and the rest of the contract of a descriptor:          *)
(* bindParam, sanitize, areValuesEqual.                                    *)
(***************************************************************************)
\* joinSQLFragments of a head and one optional fragment: falsy fragments are dropped
JoinSQLFragments(head, frag) == IF frag = "" THEN head ELSE head \o " " \o frag

STRING_toSql(d) ==
  JoinSQLFragments("VAR_CHAR(" \o Text(ToStr(Opt(d, "length"))) \o ")",
                   IF Truthy(Opt(d, "binary")) THEN "BINARY" ELSE "")

CHAR_toSql(d) ==
  JoinSQLFragments("CHAR(" \o Text(ToStr(Opt(d, "length"))) \o ")",
                   IF Truthy(Opt(d, "binary")) THEN "BINARY" ELSE "")

STRING_validate(d, v) ==
  IF TypeOf(v) = "string" THEN Passed
  ELSE IF (Truthy(Opt(d, "binary")) /\ v.t = "buffer") \/ TypeOf(v) = "number" THEN Passed
  ELSE Raised("ValidationError")

\* d.toSql()
ToSqlOf(d) ==
  CASE Resolve(d.cls, "toSql") = "STRING" -> STRING_toSql(d)
    [] Resolve(d.cls, "toSql") = "CHAR" -> CHAR_toSql(d)
    [] Resolve(d.cls, "toSql") = "AbstractDataType" -> d.key
    [] OTHER -> ToSql(d)

\* d.validate(v)
ValidateOf(d, v) ==
  IF Resolve(d.cls, "validate") = "STRING" THEN STRING_validate(d, v)
  ELSE Validate(d.cls, v)

\* AbstractDataType.stringify
AbstractDataType_stringify(v) == Gave(Text(ToStr(v)))

\* the caller's options.escape: it quotes a text
Escape(text) == "'" \o text \o "'"

\* wkx.Geometry.parseGeoJSON(value).toWkt(): the well-known text of a geometry,
\* kept as a text that names the value it was made from
Wkt(v) ==
  "WKT<" \o (IF v.t = "string" THEN "\"" \o Text(v.s) \o "\"" ELSE Text(ToStr(v))) \o ">"

GEOMETRY_stringify(v) == Gave("STGeomFromText(" \o Escape(Wkt(v)) \o ")")

\* d.stringify(v, options)
StringifyOf(d, v) ==
  CASE Resolve(d.cls, "stringify") = "AbstractDataType" -> AbstractDataType_stringify(v)
    [] Resolve(d.cls, "stringify") = "GEOMETRY" -> GEOMETRY_stringify(v)
    [] OTHER -> Stringify(d.cls, v)

\* the caller's options.bindParam: it is handed a text and returns a placeholder
Bound(text) == [ok |-> TRUE, err |-> "", text |-> "$1", bound |-> text]

AbstractDataType_bindParam(v) == Bound(Text(ToStr(v)))
FLOAT_bindParam(v) == Bound(Text(FLOAT_value(v)))

\* GEOMETRY.bindParam wraps the placeholder it is given
GEOMETRY_bindParam(v) ==
  [Bound(Wkt(v)) EXCEPT !.text = "STGeomFromText(" \o Bound(Wkt(v)).text \o ")"]

\* d.bindParam(v, options)
BindParamOf(d, v) ==
  CASE Resolve(d.cls, "bindParam") = "FLOAT" -> FLOAT_bindParam(v)
    [] Resolve(d.cls, "bindParam") = "GEOMETRY" -> GEOMETRY_bindParam(v)
    [] OTHER -> AbstractDataType_bindParam(v)

\* a call that returns the JS value v
Value(v) == [ok |-> TRUE, err |-> "", value |-> v]

AbstractDataType_sanitize(v) == Value(v)

\* lodash isEqual over the heap h of arrays: primitives by SameValueZero (NaN
\* equals NaN, -0 equals +0), Dates by their time value (two invalid Dates are
\* equal), moments by what the model holds of them, Buffers by their bytes,
\* arrays member by member and option objects property by property, at every
\* depth, functions by identity
RECURSIVE IsEqualIn(_, _, _)
IsEqualIn(h, a, b) ==
  CASE a.t # b.t -> FALSE
    [] a.t = "number" -> SameValueZero(a, b)
    [] a.t \in {"date", "moment"} -> a.valid = b.valid /\ (a.valid => IsEqualIn(h, a.ms, b.ms))
    [] a.t = "array" ->
         \/ a.ref = b.ref
         \/ /\ Len(h[a.ref]) = Len(h[b.ref])
            /\ \A j \in 1..Len(h[a.ref]) : IsEqualIn(h, h[a.ref][j], h[b.ref][j])
    [] a.t = "object" -> \A p \in PropNames : IsEqualIn(h, a.o[p], b.o[p])
    [] OTHER -> a = b

AbstractDataType_areValuesEqual(a, b) == Value(Bool(IsEqualIn(arrays, a, b)))

\* the heap after the instance getter BINARY ran on objs[i]; the getter returns the
\* last cell
BinaryModifier_InPlace(h, i) ==
  LET edited == [h[i] EXCEPT !.options["binary"] = Bool(TRUE)]
  IN Append([h EXCEPT ![i] = edited], edited)

BinaryModifier(h, i) ==
  Append(h, ConstructLike(h[i], <<Obj([h[i].options EXCEPT !["binary"] = Bool(TRUE)])>>))

\* static get BINARY: new this({ binary: true })
StaticBinary(cls) == Construct(cls, <<Obj([NoProps EXCEPT !["binary"] = Bool(TRUE)])>>)

ReadStaticBinary(cls) ==
  /\ objs = <<>>
  /\ objs' = <<StaticBinary(cls)>>
  /\ made' = <<[how |-> "static", cls |-> cls, args |-> <<>>, from |-> 0, mod |-> "binary",
                born |-> StaticBinary(cls)]>>
  /\ UNCHANGED <<dialectVars, enumVars, valueVars>>

ReadBinary(i) ==
  /\ Len(objs) < MaxObjs
  /\ objs[i].cls \in StringTypes
  /\ objs' = BinaryModifier(objs, i)
  /\ made' = Append(made, [how |-> "instance", cls |-> objs[i].cls, args |-> <<>>,
                           from |-> i, mod |-> "binary",
                           born |-> objs'[Len(objs')]])
  /\ UNCHANGED <<dialectVars, enumVars, valueVars>>

ReadNumeric(i, m) ==
  /\ objs[i].cls \in NumericTypes
  /\ ReadInstance(i, m)

\* the descriptors and values the contract is exercised with
UseNumericTypes == {"INTEGER", "DOUBLE", "DECIMAL"}
UseNumericArgs ==
  {<<>>, <<Num(5), Num(2)>>, <<Obj([NoProps EXCEPT !["unsigned"] = Bool(TRUE)])>>}
UseStringArgs ==
  {<<>>, <<Num(5), Bool(TRUE)>>, <<Obj([NoProps EXCEPT !["length"] = Num(5)])>>,
   <<Buffer(<<1>>)>>}
UseGeometryArgs == {<<>>, <<Str(<<"P", "O", "I", "N", "T">>), Num(4326)>>}
UseValues ==
  {Num(5), Str(<<"3", ".", "1", "4">>), Str(<<"a", "b", "c">>), Null, NaN, Buffer(<<1>>)}
UsePairs ==
  {<<Num(5), Num(5)>>, <<Num(5), Str(<<"5">>)>>, <<NaN, NaN>>, <<Null, Undefined>>,
   <<NegZero, Num(0)>>, <<Buffer(<<1>>), Buffer(<<1>>)>>}

\* one call of a method of objs[i]; the methods assign nothing to the descriptor
Use(i, op, res) ==
  /\ out' = [op |-> op, cls |-> objs[i].cls, res |-> res]
  /\ UNCHANGED <<val, numVars, dialectVars, enumVars>>

NextUse ==
  \/ \E cls \in UseNumericTypes, args \in UseNumericArgs : New(cls, args)
  \/ \E cls \in StringTypes, args \in UseStringArgs : New(cls, args)
  \/ \E args \in UseGeometryArgs : New("GEOMETRY", args)
  \/ \E cls \in UseNumericTypes, m \in Modifiers : ReadStatic(cls, m)
  \/ \E cls \in StringTypes : ReadStaticBinary(cls)
  \/ \E i \in 1..Len(objs), m \in Modifiers : ReadNumeric(i, m)
  \/ \E i \in 1..Len(objs) : ReadBinary(i)
  \/ \E i \in 1..Len(objs) : Use(i, "toSql", Gave(ToSqlOf(objs[i])))
  \/ \E i \in 1..Len(objs), v \in UseValues : Use(i, "validate", ValidateOf(objs[i], v))
  \/ \E i \in 1..Len(objs), v \in UseValues : Use(i, "stringify", StringifyOf(objs[i], v))
  \/ \E i \in 1..Len(objs), v \in UseValues : Use(i, "bindParam", BindParamOf(objs[i], v))
  \/ \E i \in 1..Len(objs), v \in UseValues :
       Use(i, "sanitize", AbstractDataType_sanitize(v))
  \/ \E i \in 1..Len(objs), q \in UsePairs :
       Use(i, "areValuesEqual", AbstractDataType_areValuesEqual(q[1], q[2]))

SpecUse == Init /\ [][NextUse]_vars

(***************************************************************************)
(* DATE and DATEONLY: areValuesEqual.                                      *)
(***************************************************************************)
\* a === b: primitives by value (NaN equals nothing, -0 equals +0), objects by
\* identity. A Date and a moment carry their identity; a Buffer, an options
\* object and a descriptor carry none, and two of them that agree are one object.
StrictEq(a, b) ==
  CASE a.t # b.t -> FALSE
    [] a.t \in {"date", "moment"} -> a.id = b.id
    [] a.t = "number" -> a.k # "NaN" /\ (a = b \/ (IsZero(a) /\ IsZero(b)))
    [] OTHER -> a = b

\* value.getTime() === originalValue.getTime(); the time of an invalid Date is NaN
SameTime(a, b) == a.valid /\ b.valid /\ a.ms = b.ms

DATE_areValuesEqual_Identity(value, originalValue) ==
  IF Truthy(originalValue) /\ Truthy(value) /\ StrictEq(value, originalValue) THEN TRUE
  ELSE IF ~Truthy(originalValue) /\ ~Truthy(value) /\ StrictEq(originalValue, value) THEN TRUE
  ELSE FALSE

DATE_areValuesEqual_AnyEmpty(value, originalValue) ==
  IF Truthy(originalValue) /\ Truthy(value)
       /\ (\/ StrictEq(value, originalValue)
           \/ (value.t = "date" /\ originalValue.t = "date"
                 /\ SameTime(value, originalValue)))
    THEN TRUE
  ELSE IF ~Truthy(originalValue) /\ ~Truthy(value) THEN TRUE
  ELSE FALSE

DATE_areValuesEqual(value, originalValue) ==
  IF Truthy(originalValue) /\ Truthy(value)
       /\ (\/ StrictEq(value, originalValue)
           \/ (value.t = "date" /\ originalValue.t = "date"
                 /\ SameTime(value, originalValue)))
    THEN TRUE
  ELSE IF ~Truthy(originalValue) /\ ~Truthy(value) /\ StrictEq(originalValue, value) THEN TRUE
  ELSE FALSE

DATEONLY_areValuesEqual(value, originalValue) ==
  IF Truthy(originalValue) /\ Truthy(value) /\ StrictEq(originalValue, value) THEN TRUE
  ELSE IF ~Truthy(originalValue) /\ ~Truthy(value) /\ StrictEq(originalValue, value) THEN TRUE
  ELSE FALSE

\* the values handed to the temporal types
Year1970 == <<"1", "9", "7", "0">>
Year1971 == <<"1", "9", "7", "1">>
Instants == {1000 * k : k \in 0..(MaxInstants - 1)}
ObjectIds == {1, 2}
Dates ==
  {DateObj(id, TRUE, Num(ms)) : id \in ObjectIds, ms \in Instants}
    \cup {DateObj(id, FALSE, Num(0)) : id \in ObjectIds}
Moments == {Moment(id, TRUE, Num(ms)) : id \in ObjectIds, ms \in Instants}
Empties == {Null, Undefined, Str(<<>>), Num(0), NegZero}
DateValues ==
  Dates \cup Moments \cup Empties
    \cup {NaN, Str(Year1970), Str(Year1971), Str(<<"x">>), Num(5)}
    \cup {Num(ms) : ms \in Instants}

\* two values that exist together: one object has one content
Together(a, b) == (a.t \in {"date", "moment"} /\ a.t = b.t /\ a.id = b.id) => a = b

DateAreValuesEqual(a, b) ==
  /\ Together(a, b)
  /\ out' = [op |-> "areValuesEqual", cls |-> "DATE", a |-> a, b |-> b,
             res |-> Value(Bool(DATE_areValuesEqual(a, b)))]
  /\ UNCHANGED <<val, numVars, dialectVars, enumVars>>

DateonlyAreValuesEqual(a, b) ==
  /\ Together(a, b)
  /\ out' = [op |-> "areValuesEqual", cls |-> "DATEONLY", a |-> a, b |-> b,
             res |-> Value(Bool(DATEONLY_areValuesEqual(a, b)))]
  /\ UNCHANGED <<val, numVars, dialectVars, enumVars>>

(***************************************************************************)
(* DATE and DATEONLY: sanitize.                                            *)
(***************************************************************************)
\* ToIntegerOrInfinity of a finite number: the fraction is dropped, -0 is +0
Truncate(v) ==
  IF v.n <= 0 THEN Num(0)
  ELSE Finite(v.neg,
              StripTrailingZeros(SubSeq(v.ds, 1, IF v.n < Len(v.ds) THEN v.n ELSE Len(v.ds))),
              v.n)

\* TimeClip: a time value lies within 8.64e15 ms of the epoch
InTimeRange(v) == v.n <= 15 \/ (v.n = 16 /\ ~DigitsLess(<<8, 6, 4>>, v.ds))

\* the leap days of the years 1 .. y - 1
LeapDaysBefore(y) == ((y - 1) \div 4) - ((y - 1) \div 100) + ((y - 1) \div 400)

\* the days from 1970-01-01 to the first day of the year y
DaysToYear(y) == 365 * (y - 1970) + LeapDaysBefore(y) - LeapDaysBefore(1970)

\* the number 86400000 * days, in two parts so that no part leaves 32 bits
MsOfDays(days) ==
  LET a == IF days < 0 THEN -days ELSE days
      low == (a % 1000) * 864
      high == (a \div 1000) * 864 + (low \div 1000)
      rest == low % 1000
      digits == StripLeadingZeros(
                  DigitsOf(high) \o <<rest \div 100, (rest \div 10) % 10, rest % 10>>)
  IN IF days = 0 THEN Num(0)
     ELSE Finite(days < 0, StripTrailingZeros(digits), Len(digits) + 5)

\* a text of four digits: the year form of the date-time string format
IsYearText(cs) == Len(cs) = 4 /\ \A i \in 1..4 : cs[i] \in Digits

\* the time value of new Date(value) for a number or a text, and of a Date or a
\* moment: a number is its integer part, NaN and numbers out of range give an
\* invalid date; a year text is midnight UTC of its first day and a text without
\* a digit is invalid. The model holds no text of another form.
TimeOf(v) ==
  CASE v.t = "number" /\ v.k = "finite" /\ InTimeRange(Truncate(v)) ->
         [valid |-> TRUE, ms |-> Truncate(v)]
    [] v.t = "number" -> [valid |-> FALSE, ms |-> Num(0)]
    [] v.t = "string" /\ IsYearText(v.s) ->
         [valid |-> TRUE, ms |-> MsOfDays(DaysToYear(DecimalValue(v.s)))]
    [] v.t = "string" /\ (\A i \in 1..Len(v.s) : v.s[i] \notin Digits) ->
         [valid |-> FALSE, ms |-> Num(0)]
    [] v.t \in {"date", "moment"} -> [valid |-> v.valid, ms |-> v.ms]

\* the object new Date(value) allocates
FreshId == 3

DATE_sanitize(value, raw) ==
  IF Truthy(raw) THEN Value(value)
  ELSE IF value.t = "date" THEN Value(value)
  ELSE IF TypeOf(value) \in {"string", "number"}
    THEN Value(DateObj(FreshId, TimeOf(value).valid, TimeOf(value).ms))
  ELSE [ok |-> FALSE, err |-> "TypeError", text |-> ""]

\* an instant of the first seconds of 1970-01-01 UTC
IsFirstSeconds(ms) == ~ms.neg /\ ms.n <= 4

\* moment(value).format('YYYY-MM-DD') in the local zone: a year text is read as
\* local time and is the first day of its year; an instant of the first seconds
\* of 1970-01-01 UTC is the day before in a zone west of Greenwich. The model
\* holds no other instant.
DayText(v, west) ==
  CASE ~TimeOf(v).valid -> <<"I", "n", "v", "a", "l", "i", "d", " ", "d", "a", "t", "e">>
    [] v.t = "string" -> v.s \o <<"-", "0", "1", "-", "0", "1">>
    [] IsFirstSeconds(TimeOf(v).ms) /\ west ->
         <<"1", "9", "6", "9", "-", "1", "2", "-", "3", "1">>
    [] IsFirstSeconds(TimeOf(v).ms) /\ ~west ->
         <<"1", "9", "7", "0", "-", "0", "1", "-", "0", "1">>

DATEONLY_sanitize(value, raw, west) ==
  IF TypeOf(value) \notin {"string", "number"} /\ value.t # "date"
    THEN [ok |-> FALSE, err |-> "TypeError", text |-> ""]
  ELSE IF ~Truthy(raw) /\ Truthy(value) THEN Value(Str(DayText(value, west)))
  ELSE Value(value)

\* options?.raw
RawOptions == {Undefined, Bool(FALSE), Bool(TRUE)}
SanitizeValues == DateValues \cup {Bool(TRUE), Buffer(<<1>>)}

DateSanitize(v, raw) ==
  /\ out' = [op |-> "sanitize", cls |-> "DATE", a |-> v, raw |-> raw,
             res |-> DATE_sanitize(v, raw)]
  /\ UNCHANGED <<val, numVars, dialectVars, enumVars>>

DateonlySanitize(v, raw, west) ==
  /\ out' = [op |-> "sanitize", cls |-> "DATEONLY", a |-> v, raw |-> raw,
             res |-> DATEONLY_sanitize(v, raw, west)]
  /\ UNCHANGED <<val, numVars, dialectVars, enumVars>>

(***************************************************************************)
(* BOOLEAN: sanitize.                                                      *)
(***************************************************************************)
TextTrue == <<"t", "r", "u", "e">>
TextFalse == <<"f", "a", "l", "s", "e">>

BOOLEAN_parse_AnyLength(value) ==
  IF value.t \in {"null", "undefined"} THEN Null
  ELSE LET v == IF value.t = "buffer" /\ Len(value.bytes) >= 1
                  THEN Num(value.bytes[1]) ELSE value
       IN CASE TypeOf(v) = "string" /\ v.s = TextTrue -> Bool(TRUE)
            [] TypeOf(v) = "string" /\ v.s = TextFalse -> Bool(FALSE)
            [] TypeOf(v) = "number" /\ (StrictEq(v, Num(0)) \/ StrictEq(v, Num(1)))
                 -> Bool(Truthy(v))
            [] OTHER -> Null

BOOLEAN_parse(value) ==
  IF value.t \in {"null", "undefined"} THEN Null
  ELSE LET v == IF value.t = "buffer" /\ Len(value.bytes) = 1
                  THEN Num(value.bytes[1]) ELSE value
       IN CASE TypeOf(v) = "string" /\ v.s = TextTrue -> Bool(TRUE)
            [] TypeOf(v) = "string" /\ v.s = TextFalse -> Bool(FALSE)
            [] TypeOf(v) = "number" /\ (StrictEq(v, Num(0)) \/ StrictEq(v, Num(1)))
                 -> Bool(Truthy(v))
            [] OTHER -> Null

BOOLEAN_sanitize(value) == Value(BOOLEAN_parse(value))

\* the raw values a driver may hand over
Bytes == {0, 1, 2}
Buffers == {Buffer(bs) : bs \in SeqsUpTo(Bytes, MaxBufLen)}
BooleanValues ==
  Buffers
    \cup {Null, Undefined, Bool(TRUE), Bool(FALSE), NaN, Infinity,
          Num(0), NegZero, Num(1), Num(2), Num(-1), Finite(FALSE, <<5>>, 0),
          Str(TextTrue), Str(TextFalse), Str(<<>>), Str(<<"1">>), Str(<<"0">>),
          Str(<<"T", "R", "U", "E">>), Str(<<"t", "r", "u", "e", " ">>),
          DateObj(1, TRUE, Num(0)), Obj(NoProps)}

BooleanSanitize(v) ==
  /\ out' = [op |-> "sanitize", cls |-> "BOOLEAN", a |-> v, res |-> BOOLEAN_sanitize(v)]
  /\ UNCHANGED <<val, numVars, dialectVars, enumVars>>

(***************************************************************************)
(* RANGE: the constructor.                                                 *)
(***************************************************************************)
\* the subtypes a range is built over
RangeSubtypes == {"INTEGER", "BIGINT", "DECIMAL", "DATE", "DATEONLY"}

\* AbstractDataType.isType(value): reading value.prototype raises on undefined
\* and null; a class whose prototype is an instance of AbstractDataType (every
\* data-type class but the base class itself) or a data-type instance is a type.
\* A function value is a class of the file or the native method NativeValues.
IsType(value) ==
  CASE value.t \in {"undefined", "null"} ->
         [ok |-> FALSE, err |-> "TypeError: cannot read properties", is |-> FALSE]
    [] value.t = "function" ->
         [ok |-> TRUE, err |-> "",
          is |-> value.cls \notin {"AbstractDataType", NativeValues.cls}]
    [] value.t = "datatype" -> [ok |-> TRUE, err |-> "", is |-> TRUE]
    [] OTHER -> [ok |-> TRUE, err |-> "", is |-> FALSE]

\* the descriptor new RANGE(...) returns: its key and its _subtype
RangeMade(subtype) == [ok |-> TRUE, err |-> "", key |-> "RANGE", subtype |-> subtype]

\* new C() with no argument, C being the function named c: ENUM finds no values
\* (line 1231), ARRAY and RANGE pass undefined to isType (lines 1281, 1018), a
\* native method is no constructor, every other class is built
NewNoArgs(c) ==
  CASE c = "ENUM" -> Raised("TypeError: ENUM cannot be used without values")
    [] c \in {"ARRAY", "RANGE"} -> Raised("TypeError: cannot read properties")
    [] c = NativeValues.cls -> Raised("TypeError: not a constructor")
    [] OTHER -> Passed

\* new RANGE(...args); the key of the base class and of a value that is no data
\* type is undefined, which the descriptor of the model does not hold
RANGE_constructor(args) ==
  LET subtypeOrOptions == Arg(args, 1)
      t == IsType(subtypeOrOptions)
      subtypeRaw ==
        Nullish(IF t.is THEN subtypeOrOptions ELSE Get(subtypeOrOptions, "subtype"),
                TypeRef("INTEGER"))
  IN CASE ~t.ok -> Raised(t.err)
       \* typeof subtypeRaw === 'function' ? new subtypeRaw() : subtypeRaw
       [] TypeOf(subtypeRaw) = "function" /\ ~NewNoArgs(subtypeRaw.cls).ok ->
            Raised(NewNoArgs(subtypeRaw.cls).err)
       [] subtypeRaw.t \in {"function", "datatype"} /\ subtypeRaw.cls # "AbstractDataType" ->
            RangeMade(KeyOf(subtypeRaw.cls))

\* the argument lists of the constructor
RangeArgs ==
  {<<>>, <<Undefined>>, <<Null>>, <<Obj(NoProps)>>, <<ClassRef("AbstractDataType")>>,
   <<Obj([NoProps EXCEPT !["subtype"] = Undefined])>>,
   <<Obj([NoProps EXCEPT !["subtype"] = Null])>>}
    \cup {<<ClassRef(c)>> : c \in RangeSubtypes \cup {"TEXT", "ENUM"}}
    \cup {<<TypeRef(c)>> : c \in RangeSubtypes}
    \cup {<<Obj([NoProps EXCEPT !["subtype"] = ClassRef(c)])>> : c \in RangeSubtypes}
    \cup {<<Obj([NoProps EXCEPT !["subtype"] = TypeRef(c)])>> : c \in RangeSubtypes}

RangeNew(args) ==
  /\ out' = [op |-> "new", cls |-> "RANGE", args |-> args, res |-> RANGE_constructor(args)]
  /\ UNCHANGED <<val, numVars, dialectVars, enumVars>>

NextCalls ==
  \/ \E a, b \in DateValues : DateAreValuesEqual(a, b)
  \/ \E a, b \in DateValues : DateonlyAreValuesEqual(a, b)
  \/ \E v \in SanitizeValues, raw \in RawOptions : DateSanitize(v, raw)
  \/ \E v \in SanitizeValues, raw \in RawOptions, west \in BOOLEAN :
       DateonlySanitize(v, raw, west)
  \/ \E v \in BooleanValues : BooleanSanitize(v)
  \/ \E args \in RangeArgs : RangeNew(args)

SpecCalls == Init /\ [][NextCalls]_vars

(***************************************************************************)
(* The caller keeps what it passed to a constructor, and may write to it   *)
(* and to the options of a descriptor afterwards.                          *)
(***************************************************************************)
AliasClasses == {"STRING", "INTEGER", "DECIMAL", "GEOMETRY"}
AliasBags ==
  { [NoProps EXCEPT !["length"] = Num(5)],
    [NoProps EXCEPT !["precision"] = Num(10), !["unsigned"] = Bool(TRUE)] }
AliasWrites == {<<"length", Num(7)>>, <<"unsigned", Bool(FALSE)>>}
AliasLists == {<<Str(CharA)>>, <<Str(CharA), Str(CharB)>>}
AliasMembers == {Str(CharB), Num(1)}

\* const bag = { ... }
CallerMakeBag(props) ==
  /\ Len(bags) < MaxBags
  /\ bags' = Append(bags, props)
  /\ UNCHANGED <<arrays, enums, enumLog, numVars, dialectVars, valueVars>>

\* new cls(bag), the first descriptor built from that bag
NewFromBag(cls, id) ==
  /\ \A i \in 1..Len(made) : made[i].bag # id
  /\ objs' = Append(objs, Construct(cls, <<Obj(bags[id])>>))
  /\ made' = Append(made, [how |-> "new", cls |-> cls, args |-> <<Obj(bags[id])>>,
                           from |-> 0, bag |-> id,
                           born |-> Construct(cls, <<Obj(bags[id])>>)])
  /\ UNCHANGED <<dialectVars, enumVars, valueVars>>

\* bag.p = v, after a descriptor was built from the bag
CallerWriteBag(id, p, v) ==
  /\ \E i \in 1..Len(made) : made[i].bag = id
  /\ bags' = [bags EXCEPT ![id][p] = v]
  /\ UNCHANGED <<arrays, enums, enumLog, numVars, dialectVars, valueVars>>

\* d.options.p = v: a write to a frozen object changes nothing
WriteOption(i, p, v) ==
  /\ objs' = IF objs[i].frozen THEN objs ELSE [objs EXCEPT ![i].options[p] = v]
  /\ UNCHANGED <<made, dialectVars, enumVars, valueVars>>

\* the arrays the caller holds: those it passed as the array or as options.values
CallerHolds(id) ==
  \E k \in 1..Len(enumLog) :
    /\ enumLog[k].ok
    /\ enumLog[k].conv \in {"array", "options"}
    /\ enums[enumLog[k].made].options.values = ArrayRef(id)

\* array.push(x)
CallerPush(id, x) ==
  /\ CallerHolds(id)
  /\ Len(arrays[id]) < MaxArrayLen
  /\ arrays' = [arrays EXCEPT ![id] = Append(@, x)]
  /\ UNCHANGED <<bags, enums, enumLog, numVars, dialectVars, valueVars>>

\* array[j] = x
CallerReplace(id, j, x) ==
  /\ CallerHolds(id)
  /\ j \in 1..Len(arrays[id])
  /\ arrays' = [arrays EXCEPT ![id][j] = x]
  /\ UNCHANGED <<bags, enums, enumLog, numVars, dialectVars, valueVars>>

\* array.length = 0
CallerTruncate(id) ==
  /\ CallerHolds(id)
  /\ arrays' = [arrays EXCEPT ![id] = <<>>]
  /\ UNCHANGED <<bags, enums, enumLog, numVars, dialectVars, valueVars>>

NextAlias ==
  \/ \E props \in AliasBags : CallerMakeBag(props)
  \/ \E cls \in AliasClasses, id \in 1..Len(bags) : NewFromBag(cls, id)
  \/ \E id \in 1..Len(bags), w \in AliasWrites : CallerWriteBag(id, w[1], w[2])
  \/ \E i \in 1..Len(objs), w \in AliasWrites : WriteOption(i, w[1], w[2])
  \/ \E list \in AliasLists : EnumVariadic(list)
  \/ \E list \in AliasLists : EnumArray(list, <<>>)
  \/ \E list \in AliasLists : EnumOptions(list, <<>>)
  \/ \E id \in 1..Len(arrays), x \in AliasMembers : CallerPush(id, x)
  \/ \E id \in 1..Len(arrays), j \in 1..MaxArrayLen, x \in AliasMembers :
       CallerReplace(id, j, x)
  \/ \E id \in 1..Len(arrays) : CallerTruncate(id)
  \/ \E i \in 1..Len(enums), v \in EnumCandidates : EnumValidate(i, v)

SpecAlias == Init /\ [][NextAlias]_vars

(***************************************************************************)
(* Properties of the modifier getters.                                     *)
(***************************************************************************)
IsRootNew(r, cls) == made[r].how = "new" /\ made[r].cls = cls
DerivedBy(i, m) == made[i].how = "instance" /\ made[i].mod = m

\* the text of a plain INTEGER built with the argument list args
PlainIntegerText(args) == IF Arg(args, 1) = Num(5) THEN "INTEGER(5)" ELSE "INTEGER"
PlainArgs == {<<>>, <<Num(0)>>, <<Num(5)>>}

\* C1: copy-on-derive. Every descriptor still has the key and options it was
\* constructed with, whatever was derived from it since; a derived descriptor is
\* another instance with the key of the one it was read from; and deriving
\* UNSIGNED then ZEROFILL from a plain INTEGER x gives the text of x followed
\* by " UNSIGNED ZEROFILL" while x.toSql() is still the plain text.
C1_CopyOnDerive ==
  /\ Len(made) = Len(objs)
  /\ \A i \in 1..Len(objs) :
       /\ objs[i] = made[i].born
       /\ made[i].how = "instance" =>
            /\ made[i].from < i
            /\ objs[i].key = objs[made[i].from].key
  /\ \A r \in 1..Len(objs) :
       (IsRootNew(r, "INTEGER") /\ made[r].args \in PlainArgs) =>
          /\ ToSql(objs[r]) = PlainIntegerText(made[r].args)
          /\ \A p, i \in 1..Len(objs) :
               (DerivedBy(p, "unsigned") /\ made[p].from = r
                  /\ DerivedBy(i, "zerofill") /\ made[i].from = p) =>
                 ToSql(objs[i]) = PlainIntegerText(made[r].args) \o " UNSIGNED ZEROFILL"

C1_Witness ==
  \E r, p, i \in 1..Len(objs) :
    /\ IsRootNew(r, "INTEGER") /\ made[r].args = <<>>
    /\ DerivedBy(p, "unsigned") /\ made[p].from = r
    /\ DerivedBy(i, "zerofill") /\ made[i].from = p
    /\ ToSql(objs[i]) = "INTEGER UNSIGNED ZEROFILL"
    /\ ToSql(objs[r]) = "INTEGER"

\* absent and undefined count as the same
OptionEquivalent(d, e) ==
  /\ d.key = e.key
  /\ \A p \in PropNames : Opt(d, p) = Opt(e, p)

\* C2: the modifier read on a default-constructed instance and the modifier
\* read on the class itself are option-equivalent and render the same text.
C2_StaticEqualsInstance ==
  \A r, i \in 1..Len(objs) :
    (made[r].how = "new" /\ made[r].args = <<>>
       /\ made[i].how = "instance" /\ made[i].from = r) =>
      LET s == StaticModifier(made[r].cls, made[i].mod)
      IN /\ OptionEquivalent(objs[i], s)
         /\ ToSql(objs[i]) = ToSql(s)

C2_Witness ==
  \E r, i \in 1..Len(objs) :
    /\ IsRootNew(r, "FLOAT") /\ made[r].args = <<>>
    /\ DerivedBy(i, "unsigned") /\ made[i].from = r
    /\ objs[i].options["decimals"] = Undefined
    /\ StaticModifier("FLOAT", "unsigned").options["decimals"] = Absent
    /\ ToSql(objs[i]) = "FLOAT UNSIGNED"

\* the descriptor read from d by the modifiers m1 then m2
ReadTwice(d, m1, m2) ==
  LET h == InstanceModifier(InstanceModifier(<<d>>, 1, m1), 2, m2)
  IN h[Len(h)]

\* C3: the order of the modifiers does not matter, from an instance and from
\* the class, and reading a modifier that is already set changes nothing.
C3_OrderIrrelevant ==
  \A p, i \in 1..Len(objs) :
    (made[i].how = "instance" /\ made[i].from = p) =>
      /\ (made[p].how = "instance" /\ made[p].mod # made[i].mod) =>
            LET other == ReadTwice(objs[made[p].from], made[i].mod, made[p].mod)
            IN /\ objs[i].options = other.options
               /\ objs[i].key = other.key
               /\ ToSql(objs[i]) = ToSql(other)
      /\ (made[p].how = "static" /\ made[p].mod # made[i].mod) =>
            LET h == InstanceModifier(<<StaticModifier(made[p].cls, made[i].mod)>>,
                                      1, made[p].mod)
                other == h[Len(h)]
            IN /\ objs[i].options = other.options
               /\ objs[i].key = other.key
               /\ ToSql(objs[i]) = ToSql(other)
      /\ (made[p].how \in {"instance", "static"} /\ made[p].mod = made[i].mod) =>
            /\ objs[i].options = objs[p].options
            /\ ToSql(objs[i]) = ToSql(objs[p])

C3_Witness ==
  \E g, p, i \in 1..Len(objs) :
    /\ IsRootNew(g, "BIGINT") /\ made[g].args = <<Num(5)>>
    /\ DerivedBy(p, "zerofill") /\ made[p].from = g
    /\ DerivedBy(i, "unsigned") /\ made[i].from = p
    /\ ToSql(objs[i]) = "BIGINT(5) UNSIGNED ZEROFILL"
    /\ ToSql(ReadTwice(objs[g], "unsigned", "zerofill")) = "BIGINT(5) UNSIGNED ZEROFILL"

(***************************************************************************)
(* Properties of the dialect metadata tables.                              *)
(***************************************************************************)
\* the (dialect, metadata) entries of table id; none for no table
Entries(id) ==
  IF id = 0 THEN {}
  ELSE {<<d, tables[id][d]>> : d \in {x \in Dialects : tables[id][x] # NoEntry}}

\* what the class c owns: its own table and the entries in it
Owned(c) == <<ownTypes[c], protoTypes[c], Entries(ownTypes[c])>>

\* what reading `types` on the class c, or on an instance of c, shows
Visible(c) == Entries(ReadTypes(ownTypes, c))
VisibleOnInstance(c) == Entries(ReadTypes(protoTypes, c))

RegisteredOn(c) == {k \in 1..Len(regLog) : regLog[k].cls = c}

\* the entries the registrations on c amount to: per dialect, the last value written
LastEntries(c) ==
  {<<regLog[k].dialect, regLog[k].types>> :
     k \in {j \in RegisteredOn(c) :
              \A l \in RegisteredOn(c) : regLog[l].dialect = regLog[j].dialect => l <= j}}

\* C4: a call of kSetDialectNames on a class leaves what each of its ancestors
\* owns (its table and the entries in it) exactly as it was before the call.
C4_ParentUntouched ==
  [][\A a \in Classes :
       (Len(regLog') = Len(regLog) + 1
          /\ a \in Ancestors(regLog'[Len(regLog')].cls)) =>
         Owned(a)' = Owned(a)]_vars

C4_Witness ==
  /\ Len(regLog) >= 2
  /\ regLog[1].cls = "INTEGER"
  /\ regLog[2].cls = "TINYINT"
  /\ regLog[2].dialect # regLog[1].dialect
  /\ Entries(ownTypes["INTEGER"]) = {<<regLog[1].dialect, regLog[1].types>>}
  /\ Entries(ownTypes["TINYINT"]) = {<<regLog[2].dialect, regLog[2].types>>}

\* C5 as stated: a class that never registered shows no entry when its `types`
\* is read, and an own table is never the parent's table.
C5_NoLeakEitherWay ==
  /\ \A c \in Classes :
       RegisteredOn(c) = {} => (Visible(c) = {} /\ VisibleOnInstance(c) = {})
  /\ \A c \in Classes :
       (ownTypes[c] # 0 /\ Parent(c) # "none") => ownTypes[c] # ownTypes[Parent(c)]

\* the nearest class, from c upwards, that has registered; "none" when there is none
RECURSIVE NearestRegistered(_)
NearestRegistered(c) ==
  IF c = "none" THEN "none"
  ELSE IF RegisteredOn(c) # {} THEN c
  ELSE NearestRegistered(Parent(c))

\* C5 amended: metadata never flows upwards or into another own table. The own
\* table of a class holds exactly the entries registered on that class and is
\* an object of its own; a class that never registered has no own table and
\* reads, through inheritance, the table of its nearest registered ancestor
\* (nothing when there is none), so it never sees a descendant's entry.
C5_LeakOnlyByInheritance ==
  /\ \A c \in Classes :
       /\ (ownTypes[c] # 0) = (RegisteredOn(c) # {})
       /\ protoTypes[c] = ownTypes[c]
       /\ Entries(ownTypes[c]) = LastEntries(c)
       /\ Visible(c) = (IF NearestRegistered(c) = "none" THEN {}
                        ELSE LastEntries(NearestRegistered(c)))
       /\ VisibleOnInstance(c) = Visible(c)
  /\ \A c, e \in Classes : (c # e /\ ownTypes[c] # 0) => ownTypes[c] # ownTypes[e]

C5_Witness ==
  /\ RegisteredOn("INTEGER") # {}
  /\ RegisteredOn("TINYINT") = {}
  /\ RegisteredOn("NUMBER") # {}
  /\ Visible("TINYINT") = Entries(ownTypes["INTEGER"])
  /\ Visible("TINYINT") # {}
  /\ Visible("NUMBER") # Visible("INTEGER")

\* what C6 says of a state: a class has an own table exactly when a call on it
\* has passed the definition, and that table holds, for every dialect written so
\* far, the value written last and nothing else
C6_TableState ==
  \A c \in Classes :
    /\ (ownTypes[c] # 0) =
         (\E k \in 1..Len(calls) :
            calls[k].cls = c /\ calls[k].pc \in {"write", "done"})
    /\ protoTypes[c] = ownTypes[c]
    /\ Entries(ownTypes[c]) = LastEntries(c)

\* C6: however the calls interleave, also when two first registrations on a class
\* both pass the own-table test before either defines the table, the class ends
\* with one table that is created once and never replaced and that maps every
\* registered dialect to the value written last (so a repeated registration
\* changes nothing and a second dialect keeps the first).
C6_RaceSafe ==
  /\ []C6_TableState
  /\ [][\A c \in Classes : ownTypes[c] # 0 => ownTypes'[c] = ownTypes[c]]_vars

C6_Witness ==
  \E j, k \in 1..Len(calls) :
    /\ j # k
    /\ calls[j].cls = calls[k].cls
    /\ calls[j].dialect # calls[k].dialect
    /\ ~calls[j].own /\ ~calls[k].own
    /\ calls[j].pc = "done" /\ calls[k].pc = "done"
    /\ Entries(ownTypes[calls[j].cls]) =
         {<<calls[j].dialect, calls[j].types>>, <<calls[k].dialect, calls[k].types>>}

(***************************************************************************)
(* Properties of the ENUM constructor.                                     *)
(***************************************************************************)
AllStrings(list) == \A i \in 1..Len(list) : list[i].t = "string"

\* C7: a non-empty list of strings passed as variadic arguments, as one array or
\* as { values } always constructs, and options.values then has the members of
\* the list in the order of the list.
C7_ConventionsAgree ==
  \A k \in 1..Len(enumLog) :
    LET c == enumLog[k]
    IN (c.conv \in {"variadic", "array", "options"}
          /\ c.list # <<>> /\ AllStrings(c.list)
          /\ c.nargs = (IF c.conv = "variadic" THEN Len(c.list) ELSE 1)) =>
         /\ c.ok
         /\ c.made \in 1..Len(enums)
         /\ enums[c.made].key = "ENUM"
         /\ c.born = c.list

C7_Witness ==
  \E k \in 1..Len(enumLog) :
    /\ enumLog[k].conv = "array"
    /\ enumLog[k].list = <<Str(CharA), Str(CharB)>>
    /\ enumLog[k].ok
    /\ enumLog[k].born = <<Str(CharA), Str(CharB)>>

\* C8: a construction with no value, with a member that is no string, or with
\* an array or options object followed by further arguments raises in the
\* constructor and leaves no descriptor; every descriptor comes out of its
\* constructor with a non-empty values of strings only.
C8_FailsFast ==
  /\ \A k \in 1..Len(enumLog) :
       LET c == enumLog[k]
       IN (c.conv \in {"variadic", "array", "options"}
             /\ (c.list = <<>> \/ ~AllStrings(c.list)
                   \/ (c.conv # "variadic" /\ c.nargs > 1))) =>
            (~c.ok /\ c.made = 0)
  /\ Len(enums) = Cardinality({k \in 1..Len(enumLog) : enumLog[k].ok})
  /\ \A k \in 1..Len(enumLog) :
       enumLog[k].ok =>
         /\ enumLog[k].made \in 1..Len(enums)
         /\ enumLog[k].born # <<>>
         /\ AllStrings(enumLog[k].born)

C8_Witness ==
  \E k \in 1..Len(enumLog) :
    /\ enumLog[k].conv = "options"
    /\ enumLog[k].list = <<>>
    /\ enumLog[k].nargs = 1
    /\ ~enumLog[k].ok
    /\ enums = <<>>

(***************************************************************************)
(* Properties of validate and stringify.                                   *)
(***************************************************************************)
\* C9: FLOAT, REAL and DOUBLE stringify NaN, Infinity and -Infinity to the
\* quoted tokens 'NaN', 'Infinity' and '-Infinity' without raising.
C9_SpecialsQuoted ==
  (out.op = "stringify" /\ out.cls \in FloatTypes
     /\ val \in {NaN, Infinity, NegInfinity}) =>
    /\ out.res.ok
    /\ out.res.text = (CASE val = NaN -> "'NaN'"
                         [] val = Infinity -> "'Infinity'"
                         [] OTHER -> "'-Infinity'")

\* the predicate the claim assigns to each numeric type
FormatPredicate(cls, cs) ==
  CASE cls \in IntegerTypes -> IsInt(cs)
    [] cls \in FloatTypes -> IsFloat(cs)
    [] OTHER -> IsDecimal(cs)

\* C10: validate of a numeric type passes exactly when the string form of the
\* value satisfies the predicate of the type, and raises ValidationError
\* otherwise; the text 3.14 passes FLOAT and is rejected by INTEGER.
C10_ValidateIsPredicate ==
  out.op = "validate" =>
    /\ out.res.ok = FormatPredicate(out.cls, ToStr(val))
    /\ ~out.res.ok => out.res.err = "ValidationError"
    /\ (val = Str(<<"3", ".", "1", "4">>) /\ out.cls = "FLOAT") => out.res.ok
    /\ (val = Str(<<"3", ".", "1", "4">>) /\ out.cls = "INTEGER") => ~out.res.ok

C10_Witness ==
  /\ out.op = "validate"
  /\ out.cls = "TINYINT"
  /\ val = Finite(FALSE, <<3, 1, 4>>, 1)
  /\ ToStr(val) = <<"3", ".", "1", "4">>
  /\ ~out.res.ok
  /\ Validate("DOUBLE", val).ok

\* C21: numeric stringify never gives text for a value its own type rejects.
\* For NUMBER, the INTEGER family, FLOAT / REAL / DOUBLE and DECIMAL and every
\* value, stringify returns a text only if validate of the same descriptor
\* passes the value, and otherwise raises ValidationError and returns nothing;
\* outside the float types the text returned is exactly String(value).
C21_StringifyGuarded ==
  out.op = "stringify" =>
    /\ out.res.ok = Validate(out.cls, val).ok
    /\ ~out.res.ok => (out.res.err = "ValidationError" /\ out.res.text = "")
    /\ (out.res.ok /\ out.cls \notin FloatTypes) => out.res.text = Text(ToStr(val))

\* the number 3.14 handed to a BIGINT: NUMBER's validate would pass it, the
\* instance's own validate rejects it, and stringify raised
C21_Witness ==
  /\ out.op = "stringify"
  /\ out.cls = "BIGINT"
  /\ val = Finite(FALSE, <<3, 1, 4>>, 1)
  /\ NUMBER_validate(val).ok
  /\ ~Validate(out.cls, val).ok
  /\ ~out.res.ok
  /\ out.res.err = "ValidationError"
  /\ out.res.text = ""

(***************************************************************************)
(* Properties of the contract of a descriptor.                             *)
(***************************************************************************)
\* C11: descriptors are read-only after construction. Whatever is called on a
\* descriptor (toSql, validate that passes or raises, stringify, bindParam,
\* sanitize, areValuesEqual, the getters UNSIGNED, ZEROFILL and BINARY), its key
\* and every value of its options stay what they were right after construction,
\* and no step changes the key or the options of a descriptor that exists.
C11_ReadOnly ==
  /\ [](/\ Len(made) = Len(objs)
        /\ \A i \in 1..Len(objs) :
             /\ objs[i].key = made[i].born.key
             /\ objs[i].options = made[i].born.options)
  /\ [][\A i \in 1..Len(objs) :
          /\ i <= Len(objs')
          /\ objs'[i].key = objs[i].key
          /\ objs'[i].options = objs[i].options]_vars

C11_Witness ==
  /\ Len(objs) = 3
  /\ IsRootNew(1, "STRING") /\ made[1].args = <<>>
  /\ DerivedBy(2, "binary") /\ made[2].from = 1
  /\ DerivedBy(3, "binary") /\ made[3].from = 2
  /\ out.op = "validate" /\ out.cls = "STRING" /\ ~out.res.ok
  /\ objs[1].options["binary"] = Bool(FALSE)
  /\ ToSqlOf(objs[1]) = "VAR_CHAR(255)"
  /\ ToSqlOf(objs[3]) = "VAR_CHAR(255) BINARY"
  /\ ~ValidateOf(objs[1], Buffer(<<1>>)).ok
  /\ ValidateOf(objs[3], Buffer(<<1>>)).ok

(***************************************************************************)
(* Properties of the temporal types.                                       *)
(***************************************************************************)
\* C12: DATE.areValuesEqual is true for two Date objects of the same instant,
\* also when they are different objects, true for (null, null), and false for
\* (null, d) and (d, null) for every Date d.
C12_DateInstants ==
  (out.op = "areValuesEqual" /\ out.cls = "DATE") =>
    /\ (out.a.t = "date" /\ out.b.t = "date" /\ out.a.valid /\ out.b.valid
          /\ out.a.ms = out.b.ms) => out.res.value = Bool(TRUE)
    /\ (out.a = Null /\ out.b = Null) => out.res.value = Bool(TRUE)
    /\ (out.a = Null /\ out.b.t = "date") => out.res.value = Bool(FALSE)
    /\ (out.a.t = "date" /\ out.b = Null) => out.res.value = Bool(FALSE)

C12_Witness ==
  /\ out.op = "areValuesEqual" /\ out.cls = "DATE"
  /\ out.a = DateObj(1, TRUE, Num(1000))
  /\ out.b = DateObj(2, TRUE, Num(1000))
  /\ out.res.value = Bool(TRUE)
  /\ ~DATE_areValuesEqual(Null, out.b)
  /\ ~DATE_areValuesEqual(out.a, Null)
  /\ DATE_areValuesEqual(Null, Null)

\* the instant a value resolves to, for the values that resolve to one
HasInstant(v) == v.t \in {"date", "moment", "number", "string"} /\ TimeOf(v).valid
InstantOf(v) == TimeOf(v).ms

\* C13 as stated: DATE.areValuesEqual is true whenever both values are empty
\* (any two of null, undefined, '' and 0) and whenever both resolve to the same
\* instant, whatever their representation.
C13_AnyEmptyOrSameInstant ==
  (out.op = "areValuesEqual" /\ out.cls = "DATE") =>
    /\ (out.a \in Empties /\ out.b \in Empties) => out.res.value = Bool(TRUE)
    /\ (HasInstant(out.a) /\ HasInstant(out.b) /\ InstantOf(out.a) = InstantOf(out.b)) =>
         out.res.value = Bool(TRUE)

\* C13 amended: DATE.areValuesEqual is true exactly when both values are the
\* same empty value (null, undefined, '' or 0 with itself), or the same
\* non-empty primitive, or the same object, or two Date objects with the same
\* valid time; two different empty values, and one instant held in two
\* representations other than two Dates, are not equal.
C13_SameEmptyOrSameDate ==
  (out.op = "areValuesEqual" /\ out.cls = "DATE") =>
    out.res.value =
      Bool(\/ (out.a \in Empties /\ (out.a = out.b \/ (IsZero(out.a) /\ IsZero(out.b))))
           \/ (out.a.t \in {"string", "number"} /\ out.a = out.b
                 /\ out.a \notin Empties /\ out.a # NaN)
           \/ (out.a.t \in {"date", "moment"} /\ out.a.t = out.b.t /\ out.a.id = out.b.id)
           \/ (out.a.t = "date" /\ out.b.t = "date" /\ out.a.valid /\ out.b.valid
                 /\ out.a.ms = out.b.ms))

C13_Witness ==
  /\ out.op = "areValuesEqual" /\ out.cls = "DATE"
  /\ out.a = Moment(1, TRUE, Num(0))
  /\ out.b = Moment(2, TRUE, Num(0))
  /\ out.res.value = Bool(FALSE)
  /\ ~DATE_areValuesEqual(Null, Undefined)
  /\ ~DATE_areValuesEqual(DateObj(1, TRUE, Num(0)), Str(Year1970))
  /\ DATE_areValuesEqual(Str(<<>>), Str(<<>>))
  /\ DATE_areValuesEqual(NegZero, Num(0))
  /\ DATE_areValuesEqual(DateObj(1, FALSE, Num(0)), DateObj(1, FALSE, Num(0)))

(***************************************************************************)
(* Properties of BOOLEAN.                                                  *)
(***************************************************************************)
\* C14: BOOLEAN.sanitize never raises; it returns true exactly for the text
\* "true", the number 1 and a one-byte buffer holding 1, false exactly for the
\* text "false", the number 0 and a one-byte buffer holding 0, and null for every
\* other input, the booleans true and false included.
C14_TriState ==
  (out.op = "sanitize" /\ out.cls = "BOOLEAN") =>
    /\ out.res.ok
    /\ out.res.value =
         (IF out.a \in {Str(TextTrue), Num(1), Buffer(<<1>>)} THEN Bool(TRUE)
          ELSE IF out.a \in {Str(TextFalse), Num(0), NegZero, Buffer(<<0>>)} THEN Bool(FALSE)
          ELSE Null)

C14_Witness ==
  /\ out.op = "sanitize" /\ out.cls = "BOOLEAN"
  /\ out.a = Buffer(<<1, 0>>)
  /\ out.res.value = Null
  /\ BOOLEAN_parse(Buffer(<<1>>)) = Bool(TRUE)
  /\ BOOLEAN_parse(Str(TextFalse)) = Bool(FALSE)
  /\ BOOLEAN_parse(Num(2)) = Null
  /\ BOOLEAN_parse(Bool(TRUE)) = Null

(***************************************************************************)
(* Properties of toSql of the numeric family.                              *)
(***************************************************************************)
IsSet(v) == v.t \notin {"undefined", "null"}

\* C15: DECIMAL.toSql is the bare text DECIMAL when neither precision nor scale
\* is set; with a precision it is DECIMAL(precision,scale), a missing scale being
\* skipped and a scale of 0 rendered; the first number in the parentheses is
\* always the precision, never the scale; for both forms of construction.
C15_PrecisionFirst ==
  \A i \in 1..Len(objs) :
    objs[i].cls = "DECIMAL" =>
      LET p == Opt(objs[i], "precision")
          s == Opt(objs[i], "scale")
          text == ToSql(objs[i])
      IN /\ (~IsSet(p) /\ ~IsSet(s)) => text = "DECIMAL"
         /\ (IsSet(p) /\ ~IsSet(s)) => text = "DECIMAL(" \o Text(ToStr(p)) \o ")"
         /\ (IsSet(p) /\ IsSet(s)) =>
              text = "DECIMAL(" \o Text(ToStr(p)) \o "," \o Text(ToStr(s)) \o ")"
         /\ (~IsSet(p) /\ IsSet(s)) => text # "DECIMAL(" \o Text(ToStr(s)) \o ")"

\* the descriptor d with both flags cleared
WithoutFlags(d) ==
  [d EXCEPT !.options["unsigned"] = Absent, !.options["zerofill"] = Absent]

\* C16: for every descriptor of the numeric family, built by its constructor or
\* derived by UNSIGNED / ZEROFILL, toSql is the type keyword with its
\* parenthetical group, then UNSIGNED exactly when unsigned is set, then ZEROFILL
\* exactly when zerofill is set.
C16_FlagsRendered ==
  \A i \in 1..Len(objs) :
    objs[i].cls \in NumericTypes =>
      ToSql(objs[i]) =
        ToSql(WithoutFlags(objs[i]))
          \o (IF Truthy(Opt(objs[i], "unsigned")) THEN " UNSIGNED" ELSE "")
          \o (IF Truthy(Opt(objs[i], "zerofill")) THEN " ZEROFILL" ELSE "")

(***************************************************************************)
(* Properties of RANGE.                                                    *)
(***************************************************************************)
\* C17: a RANGE built with no argument at all, or with an options object that
\* has no subtype, is constructed without error and records the subtype key
\* INTEGER; built with a class or an instance of a numeric or temporal type it
\* records the key of that type.
C17_DefaultsToInteger ==
  (out.op = "new" /\ out.cls = "RANGE") =>
    /\ (out.args = <<>> \/ out.args = <<Obj(NoProps)>>) =>
         (out.res.ok /\ out.res.subtype = "INTEGER")
    /\ (out.args # <<>> /\ out.args[1].t \in {"function", "datatype"}
          /\ out.args[1].cls \in RangeSubtypes) =>
         (out.res.ok /\ out.res.subtype = KeyOf(out.args[1].cls))

(***************************************************************************)
(* Properties of an ENUM descriptor after construction.                    *)
(***************************************************************************)
NoDuplicates(list) == \A j, k \in 1..Len(list) : j # k => list[j] # list[k]

\* C18: every ENUM descriptor holds, at every moment after its construction, a
\* list options.values that is non-empty, has only strings and has no member
\* twice; validate(v) passes exactly when v is a member of that list and raises
\* ValidationError otherwise.
C18_UniqueMembers ==
  /\ \A i \in 1..Len(enums) :
       /\ enums[i].options.values.t = "array"
       /\ LET list == arrays[enums[i].options.values.ref]
          IN list # <<>> /\ AllStrings(list) /\ NoDuplicates(list)
  /\ (out.op = "validate" /\ out.cls = "ENUM") =>
       LET list == MembersOf(arrays, enums[out.of].options.values)
       IN /\ out.res.ok = (\E j \in 1..Len(list) : list[j] = out.a)
          /\ ~out.res.ok => out.res.err = "ValidationError"

(***************************************************************************)
(* Properties of DATEONLY.sanitize.                                        *)
(***************************************************************************)
\* a text of the form YYYY-MM-DD
IsDayText(v) ==
  /\ v.t = "string"
  /\ Len(v.s) = 10
  /\ \A i \in 1..10 : IF i \in {5, 8} THEN v.s[i] = "-" ELSE v.s[i] \in Digits

\* C19: DATEONLY.sanitize with raw: true returns every input unchanged and
\* never raises; without raw a non-empty string, a non-zero number and a Date
\* come back as YYYY-MM-DD text, and the empty values 0 and '' come back
\* unchanged.
C19_RawPassthrough ==
  (out.op = "sanitize" /\ out.cls = "DATEONLY") =>
    /\ out.raw = Bool(TRUE) => (out.res.ok /\ out.res.value = out.a)
    /\ (out.raw # Bool(TRUE) /\ (IsZero(out.a) \/ out.a = Str(<<>>))) =>
         (out.res.ok /\ out.res.value = out.a)
    /\ (out.raw # Bool(TRUE) /\ ~(IsZero(out.a) \/ out.a = Str(<<>>))
          /\ (TypeOf(out.a) \in {"string", "number"} \/ out.a.t = "date")) =>
         (out.res.ok /\ IsDayText(out.res.value))

(***************************************************************************)
(* Properties of the options a descriptor is built from.                   *)
(***************************************************************************)
\* C20: the options of a descriptor do not alias what it was constructed from
\* and are frozen. After any write of the caller to the options object or to
\* the values array it passed, and after any attempted write to the options of
\* the descriptor, the options of every STRING, numeric, DECIMAL and GEOMETRY
\* descriptor and the values of every ENUM are what they were right after
\* construction, and every options object is frozen.
C20_NoAliasFrozen ==
  /\ \A i \in 1..Len(objs) :
       /\ objs[i].options = made[i].born.options
       /\ objs[i].frozen
  /\ \A k \in 1..Len(enumLog) :
       enumLog[k].ok =>
         /\ MembersOf(arrays, enums[enumLog[k].made].options.values) = enumLog[k].born
         /\ enums[enumLog[k].made].frozen

====
